---- MODULE Spec2Model ----
(***************************************************************************)
(* caLINEdar: the date input controller (CaLINEdarDateInput) together with *)
(* the calendar it reads and the caLINEdar object it renders through.      *)
(*                                                                         *)
(* JavaScript values are modelled as follows.                              *)
(*   Date object          [time |-> ms since the epoch]   (UTC timezone)   *)
(*   null                 NULL                                             *)
(*   plain object         record with the same field names                 *)
(*   array                sequence (index i of the array is element i+1)   *)
(*   JSON string          [json |-> the value it parses to]                *)
(*   other strings        strings                                          *)
(***************************************************************************)
EXTENDS Integers, Sequences, FiniteSets, TLC

NULL == [null |-> TRUE]

\* `let x = v; ...`: the rest F of a block with x holding the value of v,
\* which is computed once, where the statement stands.
With(v, F(_)) == CHOOSE y \in { F(x) : x \in { v } } : TRUE

(***************************************************************************)
(* Bounds of the model.                                                    *)
(***************************************************************************)
\* Years of the larger calendar the controllers are given.
NumYears == 6
\* Pending requestAnimationFrame callbacks the window holds at most.
MaxFrames == 2
\* Handlers an event queue holds at most.
MaxQueue == 2
\* Rows of values and cells in a row of a picker's table.
TableRows == 2
TableCols == 2

(***************************************************************************)
(* The JavaScript Date arithmetic the controller relies on.                *)
(***************************************************************************)
MsPerSec == 1000
SecPerDay == 86400
MsPerDay == SecPerDay * MsPerSec

\* Days since 1970-01-01 of the proleptic Gregorian date (y, m1, d), m1 in 1..12.
DaysFromCivil(y, m1, d) ==
  LET yy  == IF m1 <= 2 THEN y - 1 ELSE y
      era == yy \div 400
      yoe == yy - era * 400
      mp  == (m1 + 9) % 12
      doy == (153 * mp + 2) \div 5 + d - 1
      doe == yoe * 365 + yoe \div 4 - yoe \div 100 + doy
  IN  era * 146097 + doe - 719468

\* The Gregorian date of day z since 1970-01-01, month in 0..11 as JS counts it.
CivilFromDays(z) ==
  LET zz  == z + 719468
      era == zz \div 146097
      doe == zz - era * 146097
      yoe == (doe - doe \div 1460 + doe \div 36524 - doe \div 146096) \div 365
      doy == doe - (365 * yoe + yoe \div 4 - yoe \div 100)
      mp  == (5 * doy + 2) \div 153
      d   == doy - (153 * mp + 2) \div 5 + 1
      m1  == IF mp < 10 THEN mp + 3 ELSE mp - 9
      y   == yoe + era * 400 + (IF m1 <= 2 THEN 1 ELSE 0)
  IN  [year |-> y, month |-> m1 - 1, date |-> d]

\* new Date(ms)
NewDateFromTime(ms) == [time |-> ms]

\* d.getFullYear(), d.getMonth(), d.getDate()
getFullYear(d) == CivilFromDays(d.time \div MsPerDay).year
getMonth(d)    == CivilFromDays(d.time \div MsPerDay).month
getDateOfMonth(d) == CivilFromDays(d.time \div MsPerDay).date

\* new Date(year, month, date): midnight of that day
NewDateFromYMD(year, month, date) ==
  [time |-> DaysFromCivil(year, month + 1, date) * MsPerDay]

\* Math.floor(d.getTime() / 1000)
FloorSeconds(d) == d.time \div MsPerSec

(***************************************************************************)
(* The calendar (a CaLINEdarCalender): a table of consecutive local dates. *)
(* Every year has the months 1 and 2; a leap year has a month 3 as well.   *)
(* Odd months are one day longer than even months.  The week has 7 days    *)
(* and the first weekday is a holiday.  epochDay is the day since          *)
(* 1970-01-01 of the first local date, firstDay its weekday.               *)
(***************************************************************************)
Calendars ==
  << \* many short years: the year picker has blocks to flip through
     [firstYear |-> 1, lastYear |-> NumYears, leapYears |-> {3}, evenMonthDays |-> 1,
      epochDay |-> -12, firstDay |-> 2, nowYear |-> 5, nowMonth |-> 1, nowDate |-> 2],
     \* a single year of two months, "now" being after the calendar
     [firstYear |-> 1, lastYear |-> 1, leapYears |-> {}, evenMonthDays |-> 1,
      epochDay |-> -1, firstDay |-> 5, nowYear |-> 9, nowMonth |-> 1, nowDate |-> 1],
     \* a leap year and a common year
     [firstYear |-> 1, lastYear |-> 2, leapYears |-> {1}, evenMonthDays |-> 1,
      epochDay |-> 3, firstDay |-> 5, nowYear |-> 1, nowMonth |-> 2, nowDate |-> 1],
     \* one leap year whose months are two weeks long and longer
     [firstYear |-> 1, lastYear |-> 1, leapYears |-> {1}, evenMonthDays |-> 14,
      epochDay |-> -22, firstDay |-> 3, nowYear |-> 1, nowMonth |-> 2, nowDate |-> 1],
     \* seven short years: two blocks of the year picker, both cut by the
     \* calendar and of different lengths
     [firstYear |-> 1, lastYear |-> 7, leapYears |-> {}, evenMonthDays |-> 1,
      epochDay |-> -10, firstDay |-> 2, nowYear |-> 2, nowMonth |-> 1, nowDate |-> 1] >>

CalMonthValues(cfg, year) ==
  IF year \in cfg.leapYears THEN <<1, 2, 3>> ELSE <<1, 2>>

CalDaysInMonth(cfg, month) ==
  IF month % 2 = 1 THEN cfg.evenMonthDays + 1 ELSE cfg.evenMonthDays

RECURSIVE Flatten(_)
Flatten(seqs) ==
  IF seqs = <<>> THEN <<>> ELSE Head(seqs) \o Flatten(Tail(seqs))

\* Every local date of the calendar, in order.
CalAllDates(cfg) ==
  Flatten([i \in 1..(cfg.lastYear - cfg.firstYear + 1) |->
    LET y == cfg.firstYear + i - 1 IN
    Flatten([j \in 1..Len(CalMonthValues(cfg, y)) |->
      LET m == CalMonthValues(cfg, y)[j] IN
      [d \in 1..CalDaysInMonth(cfg, m) |-> [year |-> y, month |-> m, date |-> d]]])])

CalTable == [k \in DOMAIN Calendars |-> CalAllDates(Calendars[k])]

\* The local dates of every month of the calendar, each with the place (from 0)
\* it has in the calendar.
CalMonthTable ==
  [k \in DOMAIN Calendars |->
    [ym \in { << CalTable[k][i].year, CalTable[k][i].month >> : i \in DOMAIN CalTable[k] } |->
      LET first == CHOOSE i \in DOMAIN CalTable[k] :
                     /\ CalTable[k][i].year = ym[1]
                     /\ CalTable[k][i].month = ym[2]
                     /\ CalTable[k][i].date = 1
      IN  [d \in 1..CalDaysInMonth(Calendars[k], ym[2]) |-> first + d - 2]]]


(***************************************************************************)
(* The scenarios: which calendar the application uses, which controllers   *)
(* it constructs, which functions it has at hand as event handlers, and    *)
(* whether the scenario follows what the controllers remember of the       *)
(* calendar's dates (memory).  Where it does not, a controller's memory is *)
(* kept as it was at construction: what a controller shows is the same     *)
(* with any memory (RendersAsWithoutCache).                                *)
(***************************************************************************)
Inputs == {1, 2}
NoInput == 0

\* One controller on the long calendar, no event handlers, its memory not
\* followed.
NavSetup == [cal |-> 1, inputs |-> {1}, rtls |-> BOOLEAN, handlers |-> {},
             memory |-> FALSE]
\* One controller on the short calendar, with a handler to subscribe.
EventsSetup == [cal |-> 2, inputs |-> {1}, rtls |-> {FALSE}, handlers |-> {"h1"},
                memory |-> TRUE]

\* Two controllers on the short calendar sharing the caLINEdar object.
SharedSetup == [cal |-> 2, inputs |-> {1, 2}, rtls |-> {FALSE}, handlers |-> {},
                memory |-> TRUE]

\* One controller on the calendar of two years, its memory followed.
CacheSetup == [cal |-> 3, inputs |-> {1}, rtls |-> BOOLEAN, handlers |-> {},
               memory |-> TRUE]

\* One controller on the calendar of long months.
GridSetup == [cal |-> 4, inputs |-> {1}, rtls |-> {FALSE}, handlers |-> {},
              memory |-> TRUE]

\* One controller on the calendar of seven years, its memory not followed.
YearsSetup == [cal |-> 5, inputs |-> {1}, rtls |-> BOOLEAN, handlers |-> {},
               memory |-> FALSE]

VARIABLES
  setup,             \* the scenario, fixed from the start
  alive,             \* the controllers constructed so far
  _rtl,              \* this._rtl of each controller
  _unixDate,         \* this._unixDate (a Date or null)
  _localDate,        \* this._localDate (a local date or null)
  _events,           \* this._events: the onChange queue
  _datesCache,       \* this._datesCache: << year, month >> to the dates stored
  getDatesCalls,     \* the calendar.getDates calls each controller made
  pickerTable,       \* the rows of cells of a picker's table in the rendering layer
  unnotified,        \* the handlers subscribed to onChange when the picked date
                     \* of the controller changed that were not called since
  inputValue,        \* this.input.value
  currentDateInput,  \* the caLINEdar object's current date input
  calendarOpen,      \* whether the caLINEdar object shows its calendar
  anchorInput,       \* the controller at whose input the calendar was opened last
  shown,             \* the picker the calendar shows and the params it was given
  frames,            \* the pending requestAnimationFrame callbacks, oldest first
  last               \* the last operation and what the caller saw of it

vars == << setup, alive, _rtl, _unixDate, _localDate, _events, _datesCache,
           getDatesCalls, unnotified, inputValue, currentDateInput, calendarOpen,
           anchorInput, shown, frames, last, pickerTable >>

\* The memory of controller c.
Mem(c) == [cache |-> _datesCache[c], calls |-> getDatesCalls[c]]

(***************************************************************************)
(* The calendar's interface, read by the controllers.                      *)
(***************************************************************************)
Cfg == Calendars[setup.cal]
AllDates == CalTable[setup.cal]

MonthTable == CalMonthTable[setup.cal]

\* The place (from 0) of a local date in the calendar, -1 when it has none.
DateIndex(year, month, date) ==
  IF << year, month >> \in DOMAIN MonthTable
  THEN IF date \in DOMAIN MonthTable[<< year, month >>]
       THEN MonthTable[<< year, month >>][date]
       ELSE -1
  ELSE -1

WeekLength == 7

\* calendar.getDays()
getDays == [i \in 1..WeekLength |-> [value |-> i - 1, text |-> i - 1]]

\* The local date at place idx, as the calendar hands it out.
LocalDateAt(idx) ==
  LET d   == AllDates[idx + 1]
      day == (Cfg.firstDay + idx) % WeekLength
  IN  [year |-> d.year, month |-> d.month, date |-> d.date,
       day |-> day, holiday |-> (day = 0)]

\* calendar.getMonths(year)
getMonths(year) ==
  LET mv == CalMonthValues(Cfg, year)
  IN  [j \in 1..Len(mv) |-> [value |-> mv[j], text |-> mv[j]]]

\* calendar.isDateInCalendar(year): the call with the year alone
isYearInCalendar(year) == year >= Cfg.firstYear /\ year <= Cfg.lastYear

\* calendar.isDateInCalendar(year, month)
isDateInCalendar(year, month) ==
  /\ isYearInCalendar(year)
  /\ \E j \in 1..Len(CalMonthValues(Cfg, year)) : CalMonthValues(Cfg, year)[j] = month

\* calendar.getDates(year, month): [arr |-> the array of the month's dates], or
\* null for a month the calendar does not have
getDates(year, month) ==
  IF isDateInCalendar(year, month)
  THEN [arr |-> [d \in DOMAIN MonthTable[<< year, month >>] |->
                   LocalDateAt(MonthTable[<< year, month >>][d])]]
  ELSE NULL

\* calendar.convertJSDate2LocalDate(year, month, date): null when out of the calendar
convertJSDate2LocalDate(year, month, date) ==
  With(DaysFromCivil(year, month + 1, date) - Cfg.epochDay,
    LAMBDA idx : IF idx >= 0 /\ idx < Len(AllDates) THEN LocalDateAt(idx) ELSE NULL)

\* calendar.convertLocalDate2JSDate(year, month, date)
convertLocalDate2JSDate(year, month, date) ==
  CivilFromDays(Cfg.epochDay + DateIndex(year, month, date))

\* calendar.getNow({ fallback: "last-date" })
getNow ==
  IF DateIndex(Cfg.nowYear, Cfg.nowMonth, Cfg.nowDate) >= 0
  THEN LocalDateAt(DateIndex(Cfg.nowYear, Cfg.nowMonth, Cfg.nowDate))
  ELSE LocalDateAt(Len(AllDates) - 1)

\* calendar.toLocaleDateString(date)
toLocaleDateString(d) == << "date", getFullYear(d), getMonth(d) + 1, getDateOfMonth(d) >>

\* calendar.getDateStringPlaceholder()
getDateStringPlaceholder == << "YYYY/MM/DD" >>

\* calendar.getDateStringFormat(year, month)
getDateStringFormat(year, month) ==
  [year  |-> [text |-> year,  pos |-> 0],
   month |-> [text |-> month, pos |-> 1]]

(***************************************************************************)
(* Arguments an application passes to setDate and the constructor.         *)
(*   [kind |-> "Date", v |-> ms]   a Date object                           *)
(*   [kind |-> "int",  v |-> sec]  an integer                              *)
(*   [kind |-> "other", v |-> 0]   null, undefined, a string, ...          *)
(***************************************************************************)
Other == [kind |-> "other", v |-> 0]

\* caLINEdar.isInt(v)
isInt(date) == date.kind = "int"

\* `date instanceof Date`
isDateObject(date) == date.kind = "Date"

\* A Date or null held by a controller, passed as an argument.
AsArg(d) == IF d = NULL THEN Other ELSE [kind |-> "Date", v |-> d.time]


(***************************************************************************)
(* CaLINEdarDateInput: the code of the controller as operators.  An        *)
(* operator that can raise a TypeError returns a record with threw = TRUE. *)
(***************************************************************************)
THROWN == [threw |-> TRUE]

\* Array.prototype.findIndex: the place (from 0) of the first hit, or -1.
FindIndex(seq, Test(_)) ==
  With({ i \in 1..Len(seq) : Test(seq[i]) },
       LAMBDA hits : IF hits = {} THEN -1
                     ELSE (CHOOSE i \in hits : \A j \in hits : i <= j) - 1)

\* Array.prototype.filter
Filter(seq, Keep(_)) ==
  With({ i \in 1..Len(seq) : Keep(seq[i]) },
       LAMBDA kept :
         [k \in 1..Cardinality(kept) |->
            seq[CHOOSE i \in kept : Cardinality({ j \in kept : j <= i }) = k]])

\* getDate(): [sec |-> the unix time] or null
getDate(c) ==
  IF _unixDate[c] # NULL THEN [sec |-> FloorSeconds(_unixDate[c])] ELSE NULL

\* setDate without `this._unixDate = newDate`.
setDate_unixDateNotStored(c, date) ==
  LET newDate == IF isDateObject(date) THEN NewDateFromTime(date.v)
                 ELSE IF isInt(date) THEN NewDateFromTime(date.v * MsPerSec)
                 ELSE NULL
      unchanged == [unixDate |-> _unixDate[c], localDate |-> _localDate[c],
                    value |-> inputValue[c]]
  IN  IF newDate = NULL
      THEN [ret |-> FALSE, warned |-> FALSE] @@ unchanged
      ELSE
        With(NewDateFromYMD(getFullYear(newDate), getMonth(newDate),
                            getDateOfMonth(newDate)),
          LAMBDA aligned :
        With(convertJSDate2LocalDate(getFullYear(aligned), getMonth(aligned),
                                     getDateOfMonth(aligned)),
          LAMBDA local :
            IF local = NULL
            THEN [ret |-> FALSE, warned |-> TRUE] @@ unchanged
            ELSE [ret |-> TRUE, warned |-> FALSE, unixDate |-> _unixDate[c],
                  localDate |-> local, value |-> toLocaleDateString(aligned)]))

\* setDate without the alignment to the start of the day.
setDate_notAligned(c, date) ==
  LET newDate == IF isDateObject(date) THEN NewDateFromTime(date.v)
                 ELSE IF isInt(date) THEN NewDateFromTime(date.v * MsPerSec)
                 ELSE NULL
      unchanged == [unixDate |-> _unixDate[c], localDate |-> _localDate[c],
                    value |-> inputValue[c]]
  IN  IF newDate = NULL
      THEN [ret |-> FALSE, warned |-> FALSE] @@ unchanged
      ELSE
        With(convertJSDate2LocalDate(getFullYear(newDate), getMonth(newDate),
                                     getDateOfMonth(newDate)),
          LAMBDA local :
            IF local = NULL
            THEN [ret |-> FALSE, warned |-> TRUE] @@ unchanged
            ELSE [ret |-> TRUE, warned |-> FALSE, unixDate |-> newDate,
                  localDate |-> local, value |-> toLocaleDateString(newDate)])

\* setDate clearing the fields when the calendar cannot convert the date.
setDate_clearsOnFailure(c, date) ==
  LET newDate == IF isDateObject(date) THEN NewDateFromTime(date.v)
                 ELSE IF isInt(date) THEN NewDateFromTime(date.v * MsPerSec)
                 ELSE NULL
      unchanged == [unixDate |-> _unixDate[c], localDate |-> _localDate[c],
                    value |-> inputValue[c]]
  IN  IF newDate = NULL
      THEN [ret |-> FALSE, warned |-> FALSE] @@ unchanged
      ELSE
        With(NewDateFromYMD(getFullYear(newDate), getMonth(newDate),
                            getDateOfMonth(newDate)),
          LAMBDA aligned :
        With(convertJSDate2LocalDate(getFullYear(aligned), getMonth(aligned),
                                     getDateOfMonth(aligned)),
          LAMBDA local :
            IF local = NULL
            THEN [ret |-> FALSE, warned |-> TRUE, unixDate |-> NULL,
                  localDate |-> NULL, value |-> getDateStringPlaceholder]
            ELSE [ret |-> TRUE, warned |-> FALSE, unixDate |-> aligned,
                  localDate |-> local, value |-> toLocaleDateString(aligned)]))

\* setDate taking an argument that is neither a Date nor an integer as a
\* request to clear.
setDate_clearsOnNonDate(c, date) ==
  LET newDate == IF isDateObject(date) THEN NewDateFromTime(date.v)
                 ELSE IF isInt(date) THEN NewDateFromTime(date.v * MsPerSec)
                 ELSE NULL
      unchanged == [unixDate |-> _unixDate[c], localDate |-> _localDate[c],
                    value |-> inputValue[c]]
  IN  IF newDate = NULL
      THEN [ret |-> FALSE, warned |-> FALSE, unixDate |-> NULL, localDate |-> NULL,
            value |-> getDateStringPlaceholder]
      ELSE
        With(NewDateFromYMD(getFullYear(newDate), getMonth(newDate),
                            getDateOfMonth(newDate)),
          LAMBDA aligned :
        With(convertJSDate2LocalDate(getFullYear(aligned), getMonth(aligned),
                                     getDateOfMonth(aligned)),
          LAMBDA local :
            IF local = NULL
            THEN [ret |-> FALSE, warned |-> TRUE] @@ unchanged
            ELSE [ret |-> TRUE, warned |-> FALSE, unixDate |-> aligned,
                  localDate |-> local, value |-> toLocaleDateString(aligned)]))

\* setDate(date): what it returns, what it logs and the fields it leaves.
setDate(c, date) ==
  LET newDate == IF isDateObject(date) THEN NewDateFromTime(date.v)
                 ELSE IF isInt(date) THEN NewDateFromTime(date.v * MsPerSec)
                 ELSE NULL
      unchanged == [unixDate |-> _unixDate[c], localDate |-> _localDate[c],
                    value |-> inputValue[c]]
  IN  IF newDate = NULL
      THEN [ret |-> FALSE, warned |-> FALSE] @@ unchanged
      ELSE
        With(NewDateFromYMD(getFullYear(newDate), getMonth(newDate),
                            getDateOfMonth(newDate)),
          LAMBDA aligned :
        With(convertJSDate2LocalDate(getFullYear(aligned), getMonth(aligned),
                                     getDateOfMonth(aligned)),
          LAMBDA local :
            IF local = NULL
            THEN [ret |-> FALSE, warned |-> TRUE] @@ unchanged
            ELSE [ret |-> TRUE, warned |-> FALSE, unixDate |-> aligned,
                  localDate |-> local, value |-> toLocaleDateString(aligned)]))

\* clearDate emptying the input instead of showing the placeholder.
clearDate_emptyValue ==
  [unixDate |-> NULL, localDate |-> NULL, value |-> << "" >>]

\* clearDate(): the fields it leaves.
clearDate ==
  [unixDate |-> NULL, localDate |-> NULL, value |-> getDateStringPlaceholder]

\* `if (this.setDate(date)) { this.clearDate(); }`: the negation dropped.
setDateOrClear_inverted(c, date) ==
  With(setDate(c, date),
    LAMBDA r : IF ~r.ret THEN r
               ELSE [ret |-> TRUE, warned |-> r.warned] @@ clearDate)

\* `if (!this.setDate(date)) { this.clearDate(); }`
setDateOrClear(c, date) ==
  With(setDate(c, date),
    LAMBDA r : IF r.ret THEN r
               ELSE [ret |-> FALSE, warned |-> r.warned] @@ clearDate)

\* _serializeValue(v) and _unserializeValue(valueStr)
_serializeValue(v) == [json |-> v]

_unserializeValue(valueStr) ==
  IF "json" \in DOMAIN valueStr THEN valueStr.json ELSE NULL

\* _datesEqual comparing the year and the month only.
_datesEqual_ignoresDate(a, b) ==
  /\ a # NULL
  /\ b # NULL
  /\ a.year = b.year
  /\ a.month = b.month

\* _datesEqual(a, b), as the truth value the callers test
_datesEqual(a, b) ==
  /\ a # NULL
  /\ b # NULL
  /\ a.year = b.year
  /\ a.month = b.month
  /\ a.date = b.date

\* a === b, for values of any two types: a number is no string
StrictEquals(a, b) == ToString(a) = ToString(b)

\* _calcPrevLocalMonth(year, month, months)
_calcPrevLocalMonth(year, month, months) ==
  LET IsMonth(m) == StrictEquals(m.value, month)
  IN  With(FindIndex(months, IsMonth),
        LAMBDA currMonthIdx :
          IF currMonthIdx = 0
          THEN [threw |-> FALSE, year |-> year - 1, month |-> months[Len(months)].value]
          ELSE IF currMonthIdx - 1 >= 0
               THEN [threw |-> FALSE, year |-> year, month |-> months[currMonthIdx].value]
               ELSE THROWN)   \* months[-2] is undefined

\* _calcNextLocalMonth(year, month, months)
_calcNextLocalMonth(year, month, months) ==
  LET IsMonth(m) == StrictEquals(m.value, month)
  IN  With(FindIndex(months, IsMonth),
        LAMBDA currMonthIdx :
          IF currMonthIdx = Len(months) - 1
          THEN [threw |-> FALSE, year |-> year + 1, month |-> months[1].value]
          ELSE [threw |-> FALSE, year |-> year,
                month |-> months[currMonthIdx + 2].value])


\* caLINEdar.MAX_COUNT_DATES_IN_DATE_PICKER: 6 rows of 7 cells
MAX_COUNT_DATES_IN_DATE_PICKER == 42
\* caLINEdar.MAX_COUNT_YEAR_IN_YEAR_PICKER: 3 rows of 3 cells
MAX_COUNT_YEAR_IN_YEAR_PICKER == 9

\* A controller's memory of the calendar's dates: this._datesCache, a function
\* from << year, month >> to what calendar.getDates returned for it, together
\* with the number of calendar.getDates calls made for each << year, month >>.
NoDates == [cache |-> << >>, calls |-> << >>]

\* mem after a call of calendar.getDates(year, month) that returned dates and
\* was (or was not) stored in cache[year][month].
Computed(mem, key, dates, stored) ==
  [cache |-> IF stored THEN [k \in DOMAIN mem.cache \cup { key } |->
                               IF k = key THEN dates ELSE mem.cache[k]]
             ELSE mem.cache,
   calls |-> [k \in DOMAIN mem.calls \cup { key } |->
                (IF k \in DOMAIN mem.calls THEN mem.calls[k] ELSE 0)
                + (IF k = key THEN 1 ELSE 0)]]

\* _getDatesWithCache without `cache[year][month] = dates`.
_getDatesWithCache_notStored(mem, year, month) ==
  LET key == << year, month >>
  IN  IF key \in DOMAIN mem.cache
      THEN [dates |-> mem.cache[key], mem |-> mem, key |-> key, shared |-> FALSE]
      ELSE With(getDates(year, month), LAMBDA dates :
             [dates |-> dates, mem |-> Computed(mem, key, dates, FALSE),
              key |-> key, shared |-> FALSE])

\* _getDatesWithCache returning the cached array itself, not a copy of it.
_getDatesWithCache_notCopied(mem, year, month) ==
  LET key == << year, month >>
  IN  IF key \in DOMAIN mem.cache
      THEN [dates |-> mem.cache[key], mem |-> mem, key |-> key, shared |-> TRUE]
      ELSE With(getDates(year, month), LAMBDA dates :
             [dates |-> dates, mem |-> Computed(mem, key, dates, TRUE),
              key |-> key, shared |-> TRUE])

\* _getDatesWithCache(year, month), mem being the controller's memory before:
\* the dates it returns (null for a month the calendar does not have), the
\* memory after, and whether the array returned and its entries are the cached
\* ones (shared) or a new array of new objects, as
\* `dates.map(d => Object.assign({}, d))` makes them.
_getDatesWithCache(mem, year, month) ==
  LET key == << year, month >>
  IN  IF key \in DOMAIN mem.cache     \* dates !== undefined
      THEN [dates |-> mem.cache[key], mem |-> mem, key |-> key, shared |-> FALSE]
      ELSE With(getDates(year, month), LAMBDA dates :
             [dates |-> dates, mem |-> Computed(mem, key, dates, TRUE),
              key |-> key, shared |-> FALSE])

\* A call that was not made.
NotAsked(mem) == [dates |-> NULL, mem |-> mem, key |-> << >>, shared |-> FALSE]

Nulls(n) == [i \in 1..n |-> NULL]

\* `prevDates[i].grayOut = true` / `nextDates[i].grayOut = true` on every entry
GrayOut(dates) == [i \in 1..Len(dates) |-> dates[i] @@ [grayOut |-> TRUE]]

\* The first loops of _getLocalDatesToDisplay: `dates` with the previous month's
\* dates, then nulls, put in front.  The for loop runs while i >= 0 (the comma
\* operator drops the test of emptyCountInStart): every date of prevDates goes in.
UnshiftPrevDates(dates, firstDayIdx, prevDates) ==
  LET withPrev == IF prevDates # NULL THEN GrayOut(prevDates.arr) \o dates
                  ELSE dates
      emptyCountInStart == IF prevDates # NULL THEN firstDayIdx - Len(prevDates.arr)
                           ELSE firstDayIdx
  IN  IF emptyCountInStart > 0 THEN Nulls(emptyCountInStart) \o withPrev
      ELSE withPrev

\* The last loops of _getLocalDatesToDisplay: `dates` with the next month's
\* dates, then nulls, at the end.  The for loop runs while i < nextDates.length.
PushNextDates(dates, nextDates) ==
  LET emptyCountInTail == MAX_COUNT_DATES_IN_DATE_PICKER - Len(dates)
      withNext == IF nextDates # NULL THEN dates \o GrayOut(nextDates.arr)
                  ELSE dates
      restInTail == IF nextDates # NULL THEN emptyCountInTail - Len(nextDates.arr)
                    ELSE emptyCountInTail
  IN  IF restInTail > 0 THEN withNext \o Nulls(restInTail) ELSE withNext

\* The dates.forEach at the end of _getLocalDatesToDisplay, on one entry.
\* (A date of the month itself has no grayOut property in the code; here it
\* has grayOut = FALSE, which reads the same.)
MarkDate(d, datePicked) ==
  IF d = NULL THEN NULL
  ELSE
    LET g == d @@ [grayOut |-> FALSE]
        m == [year |-> g.year, month |-> g.month, date |-> g.date, day |-> g.day,
              holiday |-> g.holiday, grayOut |-> g.grayOut,
              special |-> (g.holiday /\ ~g.grayOut),
              picked |-> _datesEqual(g, datePicked),
              text |-> << g.date >>]
    IN  m @@ [value |-> _serializeValue(m)]

\* What the writes of _getLocalDatesToDisplay to an array it got from
\* _getDatesWithCache leave in the cache: nothing when the array and its
\* entries are copies, the array as written when they are the cached ones.
WrittenThrough(mem, got, arr) ==
  IF got.shared /\ got.dates # NULL
  THEN [mem EXCEPT !.cache = [k \in DOMAIN mem.cache |->
                                IF k = got.key THEN [arr |-> arr] ELSE mem.cache[k]]]
  ELSE mem

\* A TypeError raised after the memory became mem.
ThrownWith(mem) == [threw |-> TRUE, mem |-> mem]

\* _getLocalDatesToDisplay(year, month, datePicked), mem being the controller's
\* memory before: the grid (dates) and the memory after.
_getLocalDatesToDisplay(mem, year, month, datePicked) ==
  LET days == getDays
      months == getMonths(year)
      Marked(arr) == [i \in 1..Len(arr) |-> MarkDate(arr[i], datePicked)]
  IN
  With(_getDatesWithCache(mem, year, month), LAMBDA got :
    IF got.dates = NULL \/ got.dates.arr[1] = NULL
    THEN ThrownWith(got.mem)     \* dates[0] of null, or .day of null
    ELSE
  With(FindIndex(days, LAMBDA d : d.value = got.dates.arr[1].day), LAMBDA firstDayIdx :
  With(IF firstDayIdx > 0 THEN _calcPrevLocalMonth(year, month, months)
       ELSE [threw |-> FALSE], LAMBDA prev :
    IF prev.threw THEN ThrownWith(got.mem)
    ELSE
  With(IF firstDayIdx > 0 THEN _getDatesWithCache(got.mem, prev.year, prev.month)
       ELSE NotAsked(got.mem), LAMBDA prevGot :
  With(UnshiftPrevDates(got.dates.arr, firstDayIdx, prevGot.dates), LAMBDA headed :
  With(_calcNextLocalMonth(year, month, months), LAMBDA next :
  With(IF MAX_COUNT_DATES_IN_DATE_PICKER - Len(headed) > 0
       THEN _getDatesWithCache(prevGot.mem, next.year, next.month)
       ELSE NotAsked(prevGot.mem), LAMBDA nextGot :
  With(Marked(PushNextDates(headed, nextGot.dates)), LAMBDA dates :
    [threw |-> FALSE,
     dates |-> dates,
     mem |-> WrittenThrough(
               WrittenThrough(
                 WrittenThrough(nextGot.mem, nextGot,
                   IF nextGot.dates = NULL THEN << >>
                   ELSE Marked(GrayOut(nextGot.dates.arr))),
                 prevGot,
                 IF prevGot.dates = NULL THEN << >>
                 ELSE Marked(GrayOut(prevGot.dates.arr))),
               got, dates)]))))))))

\* _getPickerBtnsParams(year, month)
_getPickerBtnsParams(year, month) ==
  LET format == getDateStringFormat(year, month)
      pickerBtns == << [text |-> format.year.text,  value |-> "year-picker-btn"],
                       [text |-> format.month.text, value |-> "month-picker-btn"] >>
  IN  IF format.year.pos > format.month.pos
      THEN << pickerBtns[2], pickerBtns[1] >>
      ELSE pickerBtns

\* _getDatePickerParams giving the params of a month without dates as well,
\* with an empty grid, where the code raises a TypeError.
_getDatePickerParams_emptyGrid(rtl, mem, year, month, datePicked) ==
  LET months == getMonths(year)
  IN
  With(_calcPrevLocalMonth(year, month, months), LAMBDA prev :
  With(_calcNextLocalMonth(year, month, months), LAMBDA next :
  With(_getLocalDatesToDisplay(mem, year, month, datePicked), LAMBDA dates :
    LET left  == prev.threw \/ ~isDateInCalendar(prev.year, prev.month)
        right == next.threw \/ ~isDateInCalendar(next.year, next.month)
    IN  [threw |-> FALSE,
         mem |-> dates.mem,
         dates |-> IF dates.threw THEN << >> ELSE dates.dates,
         value |-> _serializeValue([year |-> year, month |-> month]),
         pickerBtns |-> _getPickerBtnsParams(year, month),
         weekHeaders |-> [i \in 1..Len(getDays) |-> getDays[i].text],
         noMoreLeft  |-> IF rtl THEN right ELSE left,
         noMoreRight |-> IF rtl THEN left ELSE right,
         rtl |-> rtl])))

\* _getDatePickerParams(year, month, datePicked), rtl being this._rtl and mem
\* the controller's memory before; mem in the result is the memory after.
_getDatePickerParams(rtl, mem, year, month, datePicked) ==
  LET months == getMonths(year)
  IN
  With(_calcPrevLocalMonth(year, month, months), LAMBDA prev :
    IF prev.threw THEN THROWN
    ELSE
  With(_calcNextLocalMonth(year, month, months), LAMBDA next :
  With(_getLocalDatesToDisplay(mem, year, month, datePicked), LAMBDA dates :
    LET left  == ~isDateInCalendar(prev.year, prev.month)
        right == ~isDateInCalendar(next.year, next.month)
    IN  IF dates.threw THEN dates
        ELSE [threw |-> FALSE,
              mem |-> dates.mem,
              dates |-> dates.dates,
              value |-> _serializeValue([year |-> year, month |-> month]),
              pickerBtns |-> _getPickerBtnsParams(year, month),
              weekHeaders |-> [i \in 1..Len(getDays) |-> getDays[i].text],
              noMoreLeft  |-> IF rtl THEN right ELSE left,
              noMoreRight |-> IF rtl THEN left ELSE right,
              rtl |-> rtl])))

\* _getMonthPickerParams(year, monthPicked) after its call of
\* calendar.getMonths(year), months being the objects the calendar returned.
\* months.map writes m.value of each and returns the object itself: the months
\* of the params are the calendar's objects as the call leaves them.
_getMonthPickerParamsOf(rtl, year, monthPicked, months) ==
  [threw |-> FALSE,
   value |-> _serializeValue([year |-> year, month |-> monthPicked]),
   months |-> [j \in 1..Len(months) |->
                 [text |-> months[j].text,
                  value |-> _serializeValue([year |-> year,
                                             month |-> months[j].value])]],
   pickerBtns |-> _getPickerBtnsParams(year, monthPicked),
   rtl |-> rtl,
   noMoreLeft |-> TRUE,
   noMoreRight |-> TRUE]

\* _getMonthPickerParams(year, monthPicked), rtl being this._rtl
_getMonthPickerParams(rtl, year, monthPicked) ==
  With(getMonths(year), LAMBDA months :
    _getMonthPickerParamsOf(rtl, year, monthPicked, months))

\* _getYearPickerParams without `years = years.filter(...)`.
_getYearPickerParams_unfiltered(rtl, anchorYear, anchorMonth) ==
  LET COUNT == MAX_COUNT_YEAR_IN_YEAR_PICKER
      half  == COUNT \div 2
      head  == [i \in 1..half |-> anchorYear - (half - i + 1)] \o << anchorYear >>
      rest  == COUNT - (half + 1)
  IN
  With(head \o [i \in 1..rest |-> anchorYear + i], LAMBDA years :
    LET left  == ~isYearInCalendar(years[1] - 1)
        right == ~isYearInCalendar(years[COUNT] + 1)
    IN  [threw |-> FALSE,
         value |-> _serializeValue([anchorYear |-> anchorYear,
                                    anchorMonth |-> anchorMonth,
                                    years |-> years]),
         years |-> [i \in 1..Len(years) |-> [text |-> years[i], value |-> years[i]]],
         noMoreLeft  |-> IF rtl THEN right ELSE left,
         noMoreRight |-> IF rtl THEN left ELSE right,
         rtl |-> rtl])

\* _getYearPickerParams taking the boundary flags from the anchor year instead
\* of the two ends of the block.
_getYearPickerParams_flagsOfAnchor(rtl, anchorYear, anchorMonth) ==
  LET COUNT == MAX_COUNT_YEAR_IN_YEAR_PICKER
      half  == COUNT \div 2
      head  == [i \in 1..half |-> anchorYear - (half - i + 1)] \o << anchorYear >>
      rest  == COUNT - (half + 1)
  IN
  With(head \o [i \in 1..rest |-> anchorYear + i], LAMBDA years :
  With(Filter(years, isYearInCalendar), LAMBDA inCal :
    LET left  == ~isYearInCalendar(anchorYear - 1)
        right == ~isYearInCalendar(anchorYear + 1)
    IN  [threw |-> FALSE,
         value |-> _serializeValue([anchorYear |-> anchorYear,
                                    anchorMonth |-> anchorMonth,
                                    years |-> inCal]),
         years |-> [i \in 1..Len(inCal) |-> [text |-> inCal[i], value |-> inCal[i]]],
         noMoreLeft  |-> IF rtl THEN right ELSE left,
         noMoreRight |-> IF rtl THEN left ELSE right,
         rtl |-> rtl]))

\* _getYearPickerParams(anchorYear, anchorMonth), rtl being this._rtl
_getYearPickerParams(rtl, anchorYear, anchorMonth) ==
  LET COUNT == MAX_COUNT_YEAR_IN_YEAR_PICKER
      half  == COUNT \div 2
      head  == [i \in 1..half |-> anchorYear - (half - i + 1)] \o << anchorYear >>
      rest  == COUNT - (half + 1)
  IN
  With(head \o [i \in 1..rest |-> anchorYear + i], LAMBDA years :
  With(Filter(years, isYearInCalendar), LAMBDA inCal :
    LET left  == ~isYearInCalendar(years[1] - 1)
        right == ~isYearInCalendar(years[COUNT] + 1)
    IN  [threw |-> FALSE,
         value |-> _serializeValue([anchorYear |-> anchorYear,
                                    anchorMonth |-> anchorMonth,
                                    years |-> inCal]),
         years |-> [i \in 1..Len(inCal) |-> [text |-> inCal[i], value |-> inCal[i]]],
         noMoreLeft  |-> IF rtl THEN right ELSE left,
         noMoreRight |-> IF rtl THEN left ELSE right,
         rtl |-> rtl]))

\* What a caLINEdar.show...Picker(params) call makes the calendar show: nothing
\* new when building the params raised.  The memory that building the params
\* left (mem) stays with the result and is no part of the params shown.
Show(id, params) ==
  IF params.threw THEN params
  ELSE [f \in DOMAIN params \cap {"mem"} |-> params[f]] @@
       [threw |-> FALSE, id |-> id,
        params |-> [f \in DOMAIN params \ {"threw", "mem"} |-> params[f]]]

\* The controller's memory after a handler whose outcome is show: the one the
\* outcome carries, else the memory before.
MemAfter(mem, show) == IF "mem" \in DOMAIN show THEN show.mem ELSE mem

ID_DATE_PICKER  == "caLINEdar-date-picker"
ID_MONTH_PICKER == "caLINEdar-month-picker"
ID_YEAR_PICKER  == "caLINEdar-year-picker"

\* _showDatePicker(year, month, datePicked)
_showDatePicker(rtl, mem, year, month, datePicked) ==
  With(_getDatePickerParams(rtl, mem, year, month, datePicked),
       LAMBDA params : Show(ID_DATE_PICKER, params))

\* _showMonthPicker(year, monthPicked)
_showMonthPicker(rtl, year, monthPicked) ==
  With(_getMonthPickerParams(rtl, year, monthPicked),
       LAMBDA params : Show(ID_MONTH_PICKER, params))

\* _showYearPicker(anchorYear, anchorMonth)
_showYearPicker(rtl, anchorYear, anchorMonth) ==
  With(_getYearPickerParams(rtl, anchorYear, anchorMonth),
       LAMBDA params : Show(ID_YEAR_PICKER, params))

\* _flipDatePicker taking "right" for the next month whatever this._rtl.
_flipDatePicker_ignoresRtl(rtl, mem, year, month, dir, datePicked) ==
  LET months == getMonths(year)
      next   == dir = "right"
  IN  With(IF next THEN _calcNextLocalMonth(year, month, months)
           ELSE _calcPrevLocalMonth(year, month, months),
        LAMBDA target :
          IF target.threw THEN THROWN
          ELSE _showDatePicker(rtl, mem, target.year, target.month, datePicked))

\* _flipDatePicker(year, month, dir), datePicked being this._localDate
_flipDatePicker(rtl, mem, year, month, dir, datePicked) ==
  LET months == getMonths(year)
      next   == IF rtl THEN dir = "left" ELSE dir = "right"
  IN  With(IF next THEN _calcNextLocalMonth(year, month, months)
           ELSE _calcPrevLocalMonth(year, month, months),
        LAMBDA target :
          IF target.threw THEN THROWN
          ELSE _showDatePicker(rtl, mem, target.year, target.month, datePicked))

\* _flipYearPicker(anchorYear, anchorMonth, years, dir)
_flipYearPicker(rtl, anchorYear, anchorMonth, years, dir) ==
  LET factor == IF dir = "right" THEN 1 ELSE -1
      signed == IF rtl THEN factor * (-1) ELSE factor
  IN  _showYearPicker(rtl, anchorYear + signed * Len(years), anchorMonth)


\* A handler that returned without showing anything.
NOSHOW == [threw |-> FALSE, id |-> "nothing"]

\* A data-caLINEdar-value attribute that JSON.parse rejects.
MALFORMED == [bad |-> TRUE]

\* The four buttons of a panel: their class and their data-caLINEdar-value.
LeftBtn  == [class |-> "left-btn",   value |-> ""]
RightBtn == [class |-> "right-btn",  value |-> ""]
YearBtn  == [class |-> "picker-btn", value |-> "year-picker-btn"]
MonthBtn == [class |-> "picker-btn", value |-> "month-picker-btn"]

\* _onPanelButtonClick(picker, target): what it makes the calendar show.
\* pickerId is picker.id, pickerAttr the picker's data-caLINEdar-value, mem the
\* controller's memory before.
_onPanelButtonClick(rtl, mem, datePicked, pickerId, pickerAttr, target) ==
  LET value   == _unserializeValue(pickerAttr)
      goLeft  == target.class = "left-btn"
      goRight == target.class = "right-btn"
      dir     == IF goLeft THEN "left" ELSE "right"
  IN  IF target.value = "year-picker-btn" /\ pickerId # ID_YEAR_PICKER
      THEN IF value = NULL THEN THROWN   \* value.year of null
           ELSE _showYearPicker(rtl, value.year, value.month)
      ELSE IF target.value = "month-picker-btn" /\ pickerId # ID_MONTH_PICKER
      THEN IF value = NULL THEN THROWN
           ELSE _showMonthPicker(rtl, value.year, value.month)
      ELSE IF pickerId = ID_DATE_PICKER /\ (goLeft \/ goRight)
      THEN IF value = NULL THEN THROWN
           ELSE _flipDatePicker(rtl, mem, value.year, value.month, dir, datePicked)
      ELSE IF pickerId = ID_YEAR_PICKER /\ (goLeft \/ goRight)
      THEN IF value = NULL THEN THROWN   \* value.anchorYear of null
           ELSE _flipYearPicker(rtl, value.anchorYear, value.anchorMonth,
                                value.years, dir)
      ELSE NOSHOW

\* What _onPick leaves when it sets nothing.
KeepDate(c) ==
  [ret |-> FALSE, warned |-> FALSE, unixDate |-> _unixDate[c],
   localDate |-> _localDate[c], value |-> inputValue[c]]

\* The rest of a case of _onPick once _showDatePicker was called.
Shown(o, show) ==
  [o EXCEPT !.show = IF show.threw THEN NOSHOW ELSE show, !.threw = show.threw,
            !.mem = MemAfter(@, show)]

\* _onPick(picker, target): the date fields it leaves (set), what it makes the
\* calendar show (show), the controller's memory after (mem), whether it
\* raised, whether it called _notify and whether _unserializeValue returned
\* null in it.
\* cellAttr is the data-caLINEdar-value of the clicked cell, null when missing.
_onPick(c, pickerId, pickerAttr, cellAttr) ==
  LET rtl  == _rtl[c]
      keep == [set |-> KeepDate(c), show |-> NOSHOW, mem |-> Mem(c),
               threw |-> FALSE, notify |-> FALSE, nullValue |-> FALSE]
      null == [keep EXCEPT !.threw = TRUE, !.nullValue = TRUE]
  IN  IF cellAttr = NULL THEN keep     \* if (!value) return
      ELSE IF pickerId = ID_DATE_PICKER
      THEN LET value == _unserializeValue(cellAttr)
           IN  IF value = NULL THEN null     \* value.year of null
               ELSE
                 With(convertLocalDate2JSDate(value.year, value.month, value.date),
                   LAMBDA jsDate :
                 With(setDate(c, [kind |-> "Date",
                                  v |-> NewDateFromYMD(jsDate.year, jsDate.month,
                                                       jsDate.date).time]),
                   LAMBDA r :
                     IF ~r.ret THEN [keep EXCEPT !.set = r]
                     ELSE
                       With(_showDatePicker(rtl, Mem(c), r.localDate.year,
                                            r.localDate.month, r.localDate),
                         LAMBDA show :
                           Shown([keep EXCEPT !.set = r, !.notify = ~show.threw],
                                 show))))
      ELSE IF pickerId = ID_MONTH_PICKER
      THEN LET value == _unserializeValue(cellAttr)
           IN  IF value = NULL THEN null
               ELSE With(_showDatePicker(rtl, Mem(c), value.year, value.month,
                                         _localDate[c]),
                         LAMBDA show : Shown(keep, show))
      ELSE IF pickerId = ID_YEAR_PICKER
      THEN LET year == cellAttr.num     \* parseInt(value)
               data == _unserializeValue(pickerAttr)
           IN  IF data = NULL THEN null     \* data.anchorMonth of null
               ELSE With(_showDatePicker(rtl, Mem(c), year, data.anchorMonth,
                                         _localDate[c]),
                         LAMBDA show : Shown(keep, show))
      ELSE keep


(***************************************************************************)
(* The rendering layer: the table of a picker (src/unnamed/part_000).      *)
(***************************************************************************)
\* A cell as _createTableRow makes it: no text, no value, no class but its own.
EmptyCell == [text |-> NULL, value |-> NULL, classes |-> {}]

\* The rows of values of the table _createEmptyPicker({ rowCount, cellCount })
\* makes.
_createEmptyPicker(rowCount, cellCount) ==
  [i \in 1..rowCount |-> [j \in 1..cellCount |-> EmptyCell]]

\* The classes _updateTableCells takes off a cell without a datum.
DatumClasses == { "picked", "active", "special", "gray-out-date" }

\* _updateTableCells(table, values): the rows of cells afterwards.
_updateTableCells(table, values) ==
  LET cellCount == Len(table[1])
      \* valuesByRows[i][j]: `values[i] || null`
      Datum(i, j) == LET k == (i - 1) * cellCount + j
                     IN  IF k <= Len(values) THEN values[k] ELSE NULL
  IN  [i \in 1..Len(table) |->
        [j \in 1..cellCount |->
          LET d == Datum(i, j)
              cell == table[i][j]
          IN  IF d # NULL
              THEN [text |-> d.text,
                    value |-> d.value,
                    classes |-> cell.classes \cup { "active" }
                                  \cup (IF d.picked THEN { "picked" } ELSE {})
                                  \cup (IF d.special THEN { "special" } ELSE {})
                                  \cup (IF d.grayOutDate THEN { "gray-out-date" }
                                        ELSE {})]
              ELSE [cell EXCEPT !.classes = @ \ DatumClasses]]]

\* The data a cell can be given: none, or a datum that is picked, special,
\* both or neither.
TableData ==
  { NULL } \cup { [text |-> 1, value |-> 1, picked |-> p, special |-> sp,
                   grayOutDate |-> FALSE] : p \in BOOLEAN, sp \in BOOLEAN }

\* The arrays of values a render can bring: up to one datum a cell.
TableValues ==
  UNION { [1..n -> TableData] : n \in 0..(TableRows * TableCols) }

(***************************************************************************)
(* The state machine.                                                      *)
(***************************************************************************)
\* The arguments the application passes as a date: integers and Date objects in
\* and around the calendar, at several times of the day, and a non-date.
DateArgs ==
  LET first == Cfg.epochDay
      after == Cfg.epochDay + Len(AllDates)
  IN  { [kind |-> "int", v |-> (first - 1) * SecPerDay + SecPerDay - 1],
        [kind |-> "int", v |-> (first + 1) * SecPerDay + SecPerDay - 1],
        [kind |-> "Date", v |-> first * MsPerDay],
        [kind |-> "Date", v |-> (after - 1) * MsPerDay + 43200999],
        [kind |-> "Date", v |-> after * MsPerDay + 1],
        Other }

\* The event types and handlers the application passes to (un)subscribe.
EventTypes == { "onChange", "onClose", "toString" }
NotAFunction == "not a function"
HandlerArgs == setup.handlers \cup { NotAFunction }

NoEvents == [defined |-> FALSE, queue |-> <<>>]

\* What the caller of an operation sees of it, and what the operation met:
\*   arg        the date it was given          had     c had a picked date before
\*   ret        what it returned               warned  it logged a warning
\*   threw      it raised a TypeError          showed  it gave the renderer a picker
\*   nullValue  _unserializeValue returned null in it
\*   btn        the panel button that was clicked
\*   invoked    the handlers an animation frame called, with their argument
\*   opened     the controllers whose _openCalendar an animation frame ran
Done(op, c) ==
  [op |-> op, c |-> c, arg |-> Other,
   had |-> IF c \in Inputs THEN _unixDate[c] # NULL ELSE FALSE,
   ret |-> FALSE, warned |-> FALSE, threw |-> FALSE, showed |-> FALSE,
   nullValue |-> FALSE, btn |-> "", invoked |-> <<>>, opened |-> <<>>]

InitFor(s) ==
  /\ setup = s
  /\ alive = {}
  /\ _rtl = [c \in Inputs |-> FALSE]
  /\ _unixDate = [c \in Inputs |-> NULL]
  /\ _localDate = [c \in Inputs |-> NULL]
  /\ _events = [c \in Inputs |-> NoEvents]
  /\ _datesCache = [c \in Inputs |-> NoDates.cache]
  /\ getDatesCalls = [c \in Inputs |-> NoDates.calls]
  /\ unnotified = [c \in Inputs |-> {}]
  /\ pickerTable = _createEmptyPicker(TableRows, TableCols)
  /\ inputValue = [c \in Inputs |-> << "" >>]
  /\ currentDateInput = NoInput
  /\ calendarOpen = FALSE
  /\ anchorInput = NoInput
  /\ shown = [id |-> "none"]
  /\ frames = <<>>
  /\ last = [op |-> "init", c |-> NoInput, arg |-> Other, had |-> FALSE,
             ret |-> FALSE, warned |-> FALSE, threw |-> FALSE, showed |-> FALSE,
             nullValue |-> FALSE, btn |-> "", invoked |-> <<>>, opened |-> <<>>]

\* The handlers subscribed to onChange on controller c.
Subscribed(c) == { _events[c].queue[i] : i \in 1..Len(_events[c].queue) }

\* The date fields of controller c become those of r.  Where that changes the
\* picked date, the handlers subscribed by now are to be called.
StoreDate(c, r) ==
  /\ _unixDate' = [_unixDate EXCEPT ![c] = r.unixDate]
  /\ _localDate' = [_localDate EXCEPT ![c] = r.localDate]
  /\ inputValue' = [inputValue EXCEPT ![c] = r.value]
  /\ unnotified' = IF r.unixDate # _unixDate[c]
                   THEN [unnotified EXCEPT ![c] = @ \cup Subscribed(c)]
                   ELSE unnotified

\* The memory of the controllers becomes mems, where the scenario follows it.
StoreMems(mems) ==
  IF setup.memory
  THEN /\ _datesCache' = [c \in Inputs |-> mems[c].cache]
       /\ getDatesCalls' = [c \in Inputs |-> mems[c].calls]
  ELSE UNCHANGED << _datesCache, getDatesCalls >>

\* The memory of controller c becomes mem.
StoreMem(c, mem) == StoreMems([k \in Inputs |-> IF k = c THEN mem ELSE Mem(k)])

\* this._events[eventType], own or inherited from Object.prototype:
\* "array", "function" (an inherited method) or "undefined"
EventsLookup(c, eventType) ==
  IF eventType = "onChange"
  THEN IF _events[c].defined THEN "array" ELSE "undefined"
  ELSE IF eventType \in { "toString" } THEN "function" ELSE "undefined"

\* _notify(eventType): the frames with the callback it requests, if any.
_notify(c, eventType) ==
  IF EventsLookup(c, eventType) = "array" /\ Len(_events[c].queue) > 0
  THEN Append(frames, [kind |-> "notify", c |-> c, queue |-> _events[c].queue,
                       same |-> TRUE])
  ELSE frames

\* new CaLINEdarDateInput({ date, rtl, onChange: handler, ... })
Construct(c, date, rtl, handler) ==
  /\ c \in setup.inputs \ alive
  /\ alive' = alive \cup {c}
  /\ _rtl' = [_rtl EXCEPT ![c] = rtl]
  /\ \E r \in { setDateOrClear(c, date) } :
         /\ StoreDate(c, r)
         /\ last' = [Done("new", c) EXCEPT !.arg = date, !.ret = r.ret,
                                           !.warned = r.warned]
  /\ _events' = [_events EXCEPT ![c] =
                   IF handler \in setup.handlers
                   THEN [defined |-> TRUE, queue |-> << handler >>]
                   ELSE NoEvents]
  /\ UNCHANGED << _datesCache, getDatesCalls >>
  /\ UNCHANGED << pickerTable, anchorInput >>
  /\ UNCHANGED << setup, currentDateInput, calendarOpen, shown, frames >>

\* setDate(date), called by the application
SetDate(c, date) ==
  /\ c \in alive
  /\ \E r \in { setDate(c, date) } :
         /\ StoreDate(c, r)
         /\ last' = [Done("setDate", c) EXCEPT !.arg = date, !.ret = r.ret,
                                               !.warned = r.warned]
  /\ UNCHANGED << _datesCache, getDatesCalls >>
  /\ UNCHANGED << pickerTable, anchorInput >>
  /\ UNCHANGED << setup, alive, _rtl, _events, currentDateInput, calendarOpen,
                  shown, frames >>

\* clearDate(), called by the application
ClearDate(c) ==
  /\ c \in alive
  /\ StoreDate(c, clearDate)
  /\ last' = Done("clearDate", c)
  /\ UNCHANGED << _datesCache, getDatesCalls >>
  /\ UNCHANGED << pickerTable, anchorInput >>
  /\ UNCHANGED << setup, alive, _rtl, _events, currentDateInput, calendarOpen,
                  shown, frames >>

\* openCalendar(), called by the application
OpenCalendar(c) ==
  /\ c \in alive
  /\ IF currentDateInput # c
     THEN /\ Len(frames) < MaxFrames
          /\ currentDateInput' = c
          /\ frames' = Append(frames, [kind |-> "open", c |-> c])
     ELSE IF ~calendarOpen
     THEN /\ Len(frames) < MaxFrames
          /\ frames' = Append(frames, [kind |-> "open", c |-> c])
          /\ UNCHANGED currentDateInput
     ELSE UNCHANGED << currentDateInput, frames >>
  /\ last' = Done("openCalendar", c)
  /\ UNCHANGED << _datesCache, getDatesCalls, unnotified >>
  /\ UNCHANGED << pickerTable, anchorInput >>
  /\ UNCHANGED << setup, alive, _rtl, _unixDate, _localDate, _events, inputValue,
                  calendarOpen, shown >>

\* onFocus: the input got the focus, which calls openCalendar()
onFocus(c) == OpenCalendar(c)

\* closeCalendar without the test of caLINEdar.getCurrentDateInput().
CloseCalendar_anyInput(c) ==
  /\ c \in alive
  /\ \E r \in { setDateOrClear(c, AsArg(_unixDate[c])) } :
         /\ StoreDate(c, r)
         /\ calendarOpen' = FALSE
         /\ shown' = [id |-> "none"]
         /\ last' = [Done("closeCalendar", c) EXCEPT !.ret = r.ret,
                                                     !.warned = r.warned]
  /\ UNCHANGED << _datesCache, getDatesCalls >>
  /\ UNCHANGED << pickerTable, anchorInput >>
  /\ UNCHANGED << setup, alive, _rtl, _events, currentDateInput, frames >>

\* closeCalendar(), called by the application
CloseCalendar(c) ==
  /\ c \in alive
  /\ IF currentDateInput # c
     THEN /\ UNCHANGED << _unixDate, _localDate, inputValue, unnotified,
                          calendarOpen, shown >>
          /\ last' = Done("closeCalendar", c)
     ELSE \E r \in { setDateOrClear(c, AsArg(_unixDate[c])) } :
              /\ StoreDate(c, r)
              /\ calendarOpen' = FALSE
              /\ shown' = [id |-> "none"]
              /\ last' = [Done("closeCalendar", c) EXCEPT !.ret = r.ret,
                                                          !.warned = r.warned]
  /\ UNCHANGED << _datesCache, getDatesCalls >>
  /\ UNCHANGED << pickerTable, anchorInput >>
  /\ UNCHANGED << setup, alive, _rtl, _events, currentDateInput, frames >>

\* _onClickOutside: a click outside the picker, which calls closeCalendar()
_onClickOutside(c) == CloseCalendar(c)

\* _onClearBtnClick: a click on the clear button
_onClearBtnClick(c) ==
  /\ c \in alive
  /\ Len(_notify(c, "onChange")) <= MaxFrames
  /\ StoreDate(c, clearDate)
  /\ frames' = _notify(c, "onChange")
  /\ last' = Done("_onClearBtnClick", c)
  /\ UNCHANGED << _datesCache, getDatesCalls >>
  /\ UNCHANGED << pickerTable, anchorInput >>
  /\ UNCHANGED << setup, alive, _rtl, _events, currentDateInput, calendarOpen, shown >>


\* The data-caLINEdar-value the rendering layer writes on a cell of a table.
CellAttr(value) == IF value \in Int THEN [num |-> value] ELSE value

\* The cells of the shown picker that carry a value.
ShownCells ==
  IF shown.id = ID_DATE_PICKER
  THEN { shown.params.dates[i].value :
           i \in { j \in 1..Len(shown.params.dates) : shown.params.dates[j] # NULL } }
  ELSE IF shown.id = ID_MONTH_PICKER
  THEN { shown.params.months[i].value : i \in 1..Len(shown.params.months) }
  ELSE IF shown.id = ID_YEAR_PICKER
  THEN { CellAttr(shown.params.years[i].value) : i \in 1..Len(shown.params.years) }
  ELSE {}

\* The data-caLINEdar-value a clicked cell can carry: the one it was given, none
\* (an empty cell) or, in the pickers that parse it as JSON, one that is not JSON.
CellAttrs ==
  IF shown.id = "none" THEN {}
  ELSE ShownCells \cup { NULL }
         \cup (IF shown.id = ID_YEAR_PICKER THEN {} ELSE { MALFORMED })

\* The buttons of the shown picker's panel that can be clicked: the left and
\* right buttons unless disabled, the labels where the params carry them.
ShownButtons ==
  IF shown.id = "none" THEN {}
  ELSE (IF shown.params.noMoreLeft THEN {} ELSE { LeftBtn })
       \cup (IF shown.params.noMoreRight THEN {} ELSE { RightBtn })
       \cup (IF "pickerBtns" \in DOMAIN shown.params THEN { YearBtn, MonthBtn } ELSE {})

\* The picker's data-caLINEdar-value as an event can carry it.
PickerAttrs ==
  IF shown.id = "none" THEN {} ELSE { shown.params.value, MALFORMED, NULL }

\* The same for a click on a cell: _onPick reads the picker's attribute in the
\* year picker only.
PickerAttrsOfPick ==
  IF shown.id = ID_YEAR_PICKER THEN PickerAttrs
  ELSE IF shown.id = "none" THEN {} ELSE { shown.params.value }

\* What the calendar shows after a handler with outcome `show`.
ShownAfter(show) ==
  IF show.threw \/ show.id = "nothing" THEN shown
  ELSE [id |-> show.id, params |-> show.params]

\* _onPickerClick on a button of the panel, the event carrying the picker
\* with its attribute (one of PickerAttrs) and the button (one of ShownButtons)
PanelButtonClick(c, pickerAttr, target) ==
  /\ calendarOpen
  /\ c = currentDateInput
  /\ c \in alive
  /\ \E show \in { _onPanelButtonClick(_rtl[c], Mem(c), _localDate[c], shown.id,
                                        pickerAttr, target) } :
         /\ shown' = ShownAfter(show)
         /\ StoreMem(c, MemAfter(Mem(c), show))
         /\ last' = [Done("_onPanelButtonClick", c) EXCEPT
                       !.threw = show.threw,
                       !.showed = ~show.threw /\ show.id # "nothing",
                       !.nullValue = _unserializeValue(pickerAttr) = NULL,
                       !.btn = IF target.value # "" THEN target.value
                               ELSE target.class]
  /\ UNCHANGED << pickerTable, anchorInput >>
  /\ UNCHANGED << setup, alive, _rtl, _unixDate, _localDate, _events, unnotified,
                  inputValue, currentDateInput, calendarOpen, frames >>

\* _onPickerClick on a cell of the table, the event carrying the picker with
\* its attribute (one of PickerAttrsOfPick) and the cell's (one of CellAttrs)
PickCell(c, pickerAttr, cellAttr) ==
  /\ calendarOpen
  /\ c = currentDateInput
  /\ c \in alive
  /\ \E o \in { _onPick(c, shown.id, pickerAttr, cellAttr) } :
         /\ Len(IF o.notify THEN _notify(c, "onChange") ELSE frames) <= MaxFrames
         /\ StoreDate(c, o.set)
         /\ StoreMem(c, o.mem)
         /\ shown' = ShownAfter(o.show)
         /\ frames' = IF o.notify THEN _notify(c, "onChange") ELSE frames
         /\ last' = [Done("_onPick", c) EXCEPT
                       !.ret = o.set.ret, !.warned = o.set.warned,
                       !.threw = o.threw,
                       !.showed = ~o.threw /\ o.show.id # "nothing",
                       !.nullValue = o.nullValue]
  /\ UNCHANGED << pickerTable, anchorInput >>
  /\ UNCHANGED << setup, alive, _rtl, _events, currentDateInput, calendarOpen >>

\* _openCalendar opening at the calendar's "now" whatever date is picked.
_openCalendar_atNow(c, before) ==
  LET datePicked == _localDate[c]
      dateLocal  == getNow
  IN  With(_showDatePicker(_rtl[c], before.mems[c], dateLocal.year,
                           dateLocal.month, datePicked),
        LAMBDA show :
          With([before.mems EXCEPT ![c] = MemAfter(@, show)], LAMBDA mems :
            IF show.threw
            THEN [before EXCEPT !.mems = mems, !.opened = Append(@, c)]
            ELSE [open |-> TRUE,
                  anchor |-> c,
                  shown |-> [id |-> show.id, params |-> show.params],
                  mems |-> mems,
                  invoked |-> before.invoked,
                  opened |-> Append(before.opened, c)]))

\* _openCalendar(), run as an animation frame callback: what the calendar
\* shows and the controllers remember (mems) afterwards, given what they did
\* before.
_openCalendar(c, before) ==
  LET datePicked == _localDate[c]
      dateLocal  == IF datePicked # NULL THEN datePicked ELSE getNow
  IN  With(_showDatePicker(_rtl[c], before.mems[c], dateLocal.year,
                           dateLocal.month, datePicked),
        LAMBDA show :
          With([before.mems EXCEPT ![c] = MemAfter(@, show)], LAMBDA mems :
            IF show.threw
            THEN [before EXCEPT !.mems = mems, !.opened = Append(@, c)]
            ELSE [open |-> TRUE,
                  anchor |-> c,
                  shown |-> [id |-> show.id, params |-> show.params],
                  mems |-> mems,
                  invoked |-> before.invoked,
                  opened |-> Append(before.opened, c)]))

\* The callbacks of one animation frame, the one requested last run first.
RECURSIVE RunCallbacks_newestFirst(_, _)
RunCallbacks_newestFirst(callbacks, before) ==
  IF callbacks = <<>> THEN before
  ELSE
    LET cb == callbacks[Len(callbacks)]
    IN  With(IF cb.kind = "open" THEN _openCalendar(cb.c, before)
             ELSE [before EXCEPT !.invoked =
                     @ \o [i \in 1..Len(cb.queue) |->
                             [handler |-> cb.queue[i], arg |-> cb.c]]],
          LAMBDA after :
            RunCallbacks_newestFirst(SubSeq(callbacks, 1, Len(callbacks) - 1),
                                     after))

\* The callbacks of one animation frame, run in the order they were requested.
RECURSIVE RunCallbacks(_, _)
RunCallbacks(callbacks, before) ==
  IF callbacks = <<>> THEN before
  ELSE
    LET cb == Head(callbacks)
    IN  With(IF cb.kind = "open" THEN _openCalendar(cb.c, before)
             ELSE [before EXCEPT !.invoked =
                     @ \o [i \in 1..Len(cb.queue) |->
                             [handler |-> cb.queue[i], arg |-> cb.c]]],
          LAMBDA after : RunCallbacks(Tail(callbacks), after))

\* The window runs an animation frame.
RunFrame ==
  /\ frames # <<>>
  /\ \E after \in { RunCallbacks(frames, [open |-> calendarOpen, anchor |-> anchorInput,
                                            shown |-> shown,
                                            mems |-> [c \in Inputs |-> Mem(c)],
                                            invoked |-> <<>>,
                                            opened |-> <<>>]) } :
         /\ calendarOpen' = after.open
         /\ anchorInput' = after.anchor
         /\ StoreMems(after.mems)
         /\ shown' = after.shown
         /\ unnotified' = [c \in Inputs |->
                            unnotified[c] \ { after.invoked[i].handler :
                              i \in { j \in 1..Len(after.invoked) :
                                        after.invoked[j].arg = c } }]
         /\ last' = [Done("frame", NoInput) EXCEPT !.invoked = after.invoked,
                                                   !.opened = after.opened,
                                                   !.showed = after.shown # shown]
  /\ frames' = <<>>
  /\ UNCHANGED pickerTable
  /\ UNCHANGED << setup, alive, _rtl, _unixDate, _localDate, _events, inputValue,
                  currentDateInput >>

\* subscribe(eventType, handler)
Subscribe(c, eventType, handler) ==
  /\ c \in alive
  /\ IF handler # NotAFunction /\ eventType \in { "onChange" }
     THEN /\ Len(_events[c].queue) < MaxQueue
          /\ _events' = [_events EXCEPT ![c] =
                           [defined |-> TRUE, queue |-> Append(@.queue, handler)]]
          \* queue.push changes the array a pending callback holds as well
          /\ frames' = [i \in 1..Len(frames) |->
                          IF frames[i].kind = "notify" /\ frames[i].c = c /\ frames[i].same
                          THEN [frames[i] EXCEPT !.queue = Append(@, handler)]
                          ELSE frames[i]]
     ELSE UNCHANGED << _events, frames >>
  /\ last' = Done("subscribe", c)
  /\ UNCHANGED << _datesCache, getDatesCalls, unnotified >>
  /\ UNCHANGED << pickerTable, anchorInput >>
  /\ UNCHANGED << setup, alive, _rtl, _unixDate, _localDate, inputValue,
                  currentDateInput, calendarOpen, shown >>

\* unsubscribe(eventType, handler)
Unsubscribe(c, eventType, handler) ==
  /\ c \in alive
  /\ LET queue == EventsLookup(c, eventType)
         IsNot(h) == h # handler
     IN  IF queue # "undefined" /\ handler # NotAFunction
         THEN IF queue = "array"
              THEN /\ _events' = [_events EXCEPT ![c].queue = Filter(@, IsNot)]
                   /\ unnotified' = [unnotified EXCEPT ![c] = @ \ { handler }]
                   \* queue.filter makes a new array: a pending callback keeps the old
                   /\ frames' = [i \in 1..Len(frames) |->
                                   IF frames[i].kind = "notify" /\ frames[i].c = c
                                   THEN [frames[i] EXCEPT !.same = FALSE]
                                   ELSE frames[i]]
                   /\ last' = Done("unsubscribe", c)
              ELSE \* queue.filter is not a function
                   /\ UNCHANGED << _events, frames, unnotified >>
                   /\ last' = [Done("unsubscribe", c) EXCEPT !.threw = TRUE]
         ELSE /\ UNCHANGED << _events, frames, unnotified >>
              /\ last' = Done("unsubscribe", c)
  /\ UNCHANGED << _datesCache, getDatesCalls >>
  /\ UNCHANGED << pickerTable, anchorInput >>
  /\ UNCHANGED << setup, alive, _rtl, _unixDate, _localDate, inputValue,
                  currentDateInput, calendarOpen, shown >>

\* One controller navigating the long calendar.
Init == InitFor(NavSetup)

Next ==
  \/ \E c \in Inputs, date \in DateArgs, rtl \in setup.rtls, h \in HandlerArgs :
       Construct(c, date, rtl, h)
  \/ \E c \in Inputs, date \in DateArgs : SetDate(c, date)
  \/ \E c \in Inputs : ClearDate(c)
  \/ \E c \in Inputs : OpenCalendar(c)
  \/ \E c \in Inputs : onFocus(c)
  \/ \E c \in Inputs : CloseCalendar(c)
  \/ \E c \in Inputs : _onClickOutside(c)
  \/ \E c \in Inputs : _onClearBtnClick(c)
  \/ \E c \in Inputs, attr \in PickerAttrs, target \in ShownButtons :
       PanelButtonClick(c, attr, target)
  \/ \E c \in Inputs, attr \in PickerAttrsOfPick, cell \in CellAttrs :
       PickCell(c, attr, cell)
  \/ RunFrame

Spec == Init /\ [][Next]_vars

\* One controller on the short calendar, whose user picks and clears dates in
\* the date picker and whose application subscribes and unsubscribes handlers.
InitEvents == InitFor(EventsSetup)

NextEvents ==
  \/ \E c \in Inputs, date \in DateArgs, rtl \in setup.rtls, h \in HandlerArgs :
       Construct(c, date, rtl, h)
  \/ \E c \in Inputs : onFocus(c)
  \/ \E c \in Inputs : _onClickOutside(c)
  \/ \E c \in Inputs : _onClearBtnClick(c)
  \/ \E c \in Inputs, attr \in PickerAttrsOfPick, cell \in CellAttrs :
       PickCell(c, attr, cell)
  \/ RunFrame
  \/ \E c \in Inputs, t \in EventTypes, h \in HandlerArgs : Subscribe(c, t, h)
  \/ \E c \in Inputs, t \in EventTypes, h \in HandlerArgs : Unsubscribe(c, t, h)

SpecEvents == InitEvents /\ [][NextEvents]_vars

\* The same controller, whose application sets and clears the date as well; the
\* window runs every animation frame that was requested.
NextNotify ==
  \/ NextEvents
  \/ \E c \in Inputs, date \in DateArgs : SetDate(c, date)
  \/ \E c \in Inputs : ClearDate(c)

SpecNotify == InitEvents /\ [][NextNotify]_vars /\ WF_vars(RunFrame)

\* One controller whose user opens the calendar, flips through long months and
\* picks dates in them.
InitGrid == InitFor(GridSetup)

NextGrid ==
  \/ \E c \in Inputs, date \in DateArgs, rtl \in setup.rtls, h \in HandlerArgs :
       Construct(c, date, rtl, h)
  \/ \E c \in Inputs : onFocus(c)
  \/ \E c \in Inputs, attr \in PickerAttrs, target \in ShownButtons :
       PanelButtonClick(c, attr, target)
  \/ \E c \in Inputs, attr \in PickerAttrsOfPick, cell \in CellAttrs :
       PickCell(c, attr, cell)
  \/ RunFrame

SpecGrid == InitGrid /\ [][NextGrid]_vars

\* One controller on the calendar of seven years, whose user opens the
\* calendar and clicks the buttons of the panel: the year label and, in the
\* year picker, left and right.
InitYears == InitFor(YearsSetup)

NextYears ==
  \/ \E c \in Inputs, date \in DateArgs, rtl \in setup.rtls, h \in HandlerArgs :
       Construct(c, date, rtl, h)
  \/ \E c \in Inputs : onFocus(c)
  \/ \E c \in Inputs, attr \in PickerAttrs, target \in ShownButtons :
       PanelButtonClick(c, attr, target)
  \/ RunFrame

SpecYears == InitYears /\ [][NextYears]_vars

\* updateDatePicker / updateMonthPicker / updateYearPicker, in its animation
\* frame: the table of the picker is given values.
UpdateTable(values) ==
  /\ pickerTable' = _updateTableCells(pickerTable, values)
  /\ UNCHANGED << setup, alive, _rtl, _unixDate, _localDate, _events, _datesCache,
                  getDatesCalls, unnotified, inputValue, currentDateInput,
                  calendarOpen, anchorInput, shown, frames, last >>

\* The rendering layer alone: one table, rendered into again and again.
InitTable == InitFor(NavSetup)

NextTable == \E values \in TableValues : UpdateTable(values)

SpecTable == InitTable /\ [][NextTable]_vars

\* Two controllers of one page: the application opens and closes their
\* calendars, the user moves the focus between them and clicks outside.
InitShared == InitFor(SharedSetup)

NextShared ==
  \/ \E c \in Inputs, date \in DateArgs, rtl \in setup.rtls, h \in HandlerArgs :
       Construct(c, date, rtl, h)
  \/ \E c \in Inputs : OpenCalendar(c)
  \/ \E c \in Inputs : onFocus(c)
  \/ \E c \in Inputs : CloseCalendar(c)
  \/ \E c \in Inputs : _onClickOutside(c)
  \/ RunFrame

SpecShared == InitShared /\ [][NextShared]_vars

\* One controller whose user opens the calendar, flips through the months,
\* goes through the month and the year picker and picks dates, what the
\* controller remembers of the calendar's dates being followed.
InitCache == InitFor(CacheSetup)

NextCache ==
  \/ \E c \in Inputs, date \in DateArgs, rtl \in setup.rtls, h \in HandlerArgs :
       Construct(c, date, rtl, h)
  \/ \E c \in Inputs : onFocus(c)
  \/ \E c \in Inputs : _onClickOutside(c)
  \/ \E c \in Inputs, attr \in PickerAttrs, target \in ShownButtons :
       PanelButtonClick(c, attr, target)
  \/ \E c \in Inputs, attr \in PickerAttrsOfPick, cell \in CellAttrs :
       PickCell(c, attr, cell)
  \/ RunFrame

SpecCache == InitCache /\ [][NextCache]_vars

(***************************************************************************)
(* The properties of the controller.                                       *)
(***************************************************************************)
\* The day (since 1970-01-01) a date argument falls on.
DayOf(date) ==
  IF isInt(date) THEN (date.v * MsPerSec) \div MsPerDay ELSE date.v \div MsPerDay

\* The calendar can convert the date argument: it is a Date or an integer and
\* convertJSDate2LocalDate has a local date for its day.
Convertible(date) ==
  /\ isInt(date) \/ isDateObject(date)
  /\ With(CivilFromDays(DayOf(date)),
       LAMBDA d : convertJSDate2LocalDate(d.year, d.month, d.date) # NULL)

\* The date argument is a Date or an integer the calendar cannot convert.
Unconvertible(date) ==
  /\ isInt(date) \/ isDateObject(date)
  /\ ~Convertible(date)

\* C1: the picked state of every controller is consistent: _unixDate and
\* _localDate are both null, or both are set and _localDate is the calendar's
\* conversion of the year, month and date of _unixDate.
PickedStateConsistent ==
  \A c \in alive :
    \/ _unixDate[c] = NULL /\ _localDate[c] = NULL
    \/ /\ _unixDate[c] # NULL
       /\ _localDate[c] # NULL
       /\ _localDate[c] = convertJSDate2LocalDate(getFullYear(_unixDate[c]),
                                                  getMonth(_unixDate[c]),
                                                  getDateOfMonth(_unixDate[c]))

\* A date was picked by a click on a cell, after another one had been picked.
PickedStateWitness ==
  /\ last.op = "_onPick"
  /\ last.ret
  /\ last.had
  /\ _localDate[last.c] # NULL

\* C2: setDate(d) of a Date or integer d the calendar can convert returns true
\* and getDate() is then the unix time of the start of d's day; and in every
\* state with a picked date, setDate(getDate()) returns true and leaves
\* getDate() as it is.
SetDateGetDateRoundTrip ==
  /\ (last.op = "setDate" /\ Convertible(last.arg)) =>
       /\ last.ret
       /\ getDate(last.c) = [sec |-> DayOf(last.arg) * SecPerDay]
  /\ \A c \in alive :
       getDate(c) # NULL =>
         With(setDate(c, [kind |-> "int", v |-> getDate(c).sec]),
           LAMBDA r : r.ret /\ FloorSeconds(r.unixDate) = getDate(c).sec)

\* setDate was given an integer with a time of the day and set its day.
SetDateWitness ==
  /\ last.op = "setDate"
  /\ last.ret
  /\ isInt(last.arg)
  /\ last.arg.v % SecPerDay # 0
  /\ getDate(last.c) # NULL

\* C3: after clearDate() or a click on the clear button on a controller that
\* had a date set, getDate() is null and the input shows the placeholder.
ClearedAfterSet ==
  (last.op \in { "clearDate", "_onClearBtnClick" } /\ last.had) =>
    /\ getDate(last.c) = NULL
    /\ inputValue[last.c] = getDateStringPlaceholder

\* clearDate() ran on a controller that had a date.
ClearedWitness ==
  /\ last.op = "clearDate"
  /\ last.had
  /\ getDate(last.c) = NULL

\* C4 as stated: an unconvertible date, at construction or in a later setDate,
\* logs a warning, raises nothing and leaves the field cleared.
UnconvertibleDateClears ==
  (last.op \in { "new", "setDate" } /\ Unconvertible(last.arg)) =>
    /\ last.warned
    /\ ~last.threw
    /\ getDate(last.c) = NULL
    /\ inputValue[last.c] = getDateStringPlaceholder

\* C4 amended: an unconvertible date logs a warning and raises nothing; at
\* construction the field is left cleared; a later setDate returns false and
\* leaves the picked date and the input's text as they were.
UnconvertibleDatePolicy ==
  [][ (last'.op \in { "new", "setDate" } /\ Unconvertible(last'.arg)) =>
        /\ last'.warned
        /\ ~last'.threw
        /\ ~last'.ret
        /\ IF last'.op = "new"
           THEN /\ _unixDate'[last'.c] = NULL
                /\ _localDate'[last'.c] = NULL
                /\ inputValue'[last'.c] = getDateStringPlaceholder
           ELSE UNCHANGED << _unixDate, _localDate, inputValue >> ]_vars

\* setDate was given an unconvertible date on a controller holding a date.
UnconvertibleDateWitness ==
  /\ last.op = "setDate"
  /\ Unconvertible(last.arg)
  /\ last.had
  /\ last.warned
  /\ getDate(last.c) # NULL

\* The public operations of a controller (getDate is an expression of the state).
PublicOps == { "new", "setDate", "clearDate", "openCalendar", "closeCalendar",
               "subscribe", "unsubscribe" }

\* C5 as stated: no public operation of a controller raises an error to its
\* caller, whatever its arguments and the state it is called in.
PublicOpsNeverThrow == last.op \in PublicOps => ~last.threw

\* C6 as stated: a panel-button click or cell pick in which _unserializeValue
\* yields null is silently ignored: nothing is raised, no picker is shown and
\* the picked date is unchanged.
NullValueIgnored ==
  [][ last'.nullValue =>
        /\ ~last'.threw
        /\ ~last'.showed
        /\ UNCHANGED << _unixDate, _localDate >> ]_vars

\* C7: panel clicks, picks in the month and the year picker, focus and
\* openCalendar (with the animation frame that opens the calendar) and
\* closeCalendar leave the picked date as it was.
PickedDateFrame ==
  [][ ( \/ last'.op \in { "_onPanelButtonClick", "openCalendar", "closeCalendar",
                          "frame" }
        \/ last'.op = "_onPick" /\ shown.id \in { ID_MONTH_PICKER, ID_YEAR_PICKER } )
      => UNCHANGED << _unixDate, _localDate >> ]_vars

\* closeCalendar() set the picked date again and closed the calendar.
PickedDateFrameWitness ==
  /\ last.op = "closeCalendar"
  /\ last.ret
  /\ ~calendarOpen
  /\ getDate(last.c) # NULL

\* The left and right buttons and whether a picker's params enable them.
Opposite(dir) == IF dir = "left" THEN "right" ELSE "left"

CanGo(params, dir) ==
  IF dir = "left" THEN ~params.noMoreLeft ELSE ~params.noMoreRight

\* C8 as stated: from every displayed (year, month) of the date picker, a click
\* on an enabled left or right button followed by a click on the opposite
\* button (where enabled) shows the original (year, month) again.
FlipThereAndBack ==
  (calendarOpen /\ shown.id = ID_DATE_PICKER) =>
    \A dir \in { "left", "right" } :
      CanGo(shown.params, dir) =>
        With(_flipDatePicker(_rtl[currentDateInput], Mem(currentDateInput),
                             shown.params.value.json.year,
                             shown.params.value.json.month, dir,
                             _localDate[currentDateInput]),
          LAMBDA there :
            /\ ~there.threw
            /\ CanGo(there.params, Opposite(dir)) =>
                 With(_flipDatePicker(_rtl[currentDateInput],
                                      MemAfter(Mem(currentDateInput), there),
                                      there.params.value.json.year,
                                      there.params.value.json.month, Opposite(dir),
                                      _localDate[currentDateInput]),
                   LAMBDA back :
                     /\ ~back.threw
                     /\ back.params.value = shown.params.value))

\* What an RTL controller shows mirrors what an LTR controller shows: the same
\* value and content, the two flags exchanged.
Mirrored(a, b, content) ==
  /\ a.threw = b.threw
  /\ ~a.threw =>
       /\ a.params.value = b.params.value
       /\ a.params[content] = b.params[content]
       /\ a.params.noMoreLeft = b.params.noMoreRight
       /\ a.params.noMoreRight = b.params.noMoreLeft

\* C9: from every view of the date picker and of the year picker, a click on
\* left with rtl shows what a click on right shows without rtl, and the other
\* way round: the same month or block of years with the same dates or years,
\* noMoreLeft and noMoreRight exchanged.
RtlMirrorsLtr ==
  /\ (calendarOpen /\ shown.id = ID_DATE_PICKER) =>
       \A dir \in { "left", "right" } :
         Mirrored(_flipDatePicker(TRUE, Mem(currentDateInput),
                                  shown.params.value.json.year,
                                  shown.params.value.json.month, dir,
                                  _localDate[currentDateInput]),
                  _flipDatePicker(FALSE, Mem(currentDateInput),
                                  shown.params.value.json.year,
                                  shown.params.value.json.month, Opposite(dir),
                                  _localDate[currentDateInput]),
                  "dates")
  /\ (calendarOpen /\ shown.id = ID_YEAR_PICKER) =>
       \A dir \in { "left", "right" } :
         Mirrored(_flipYearPicker(TRUE, shown.params.value.json.anchorYear,
                                  shown.params.value.json.anchorMonth,
                                  shown.params.value.json.years, dir),
                  _flipYearPicker(FALSE, shown.params.value.json.anchorYear,
                                  shown.params.value.json.anchorMonth,
                                  shown.params.value.json.years, Opposite(dir)),
                  "years")

\* An RTL controller flipped its year picker on a click on the left button.
RtlFlipWitness ==
  /\ last.op = "_onPanelButtonClick"
  /\ last.btn = "left-btn"
  /\ last.showed
  /\ _rtl[last.c]
  /\ shown.id = ID_YEAR_PICKER

\* C10 as stated: once an outside click or a click on the clear button was
\* handled by the current input, the calendar is closed.
ClosedAfterOutsideOrClear ==
  (last.op \in { "closeCalendar", "_onClearBtnClick" } /\ last.c = currentDateInput)
    => ~calendarOpen

\* What a click on a button of the shown picker's panel makes the calendar show.
ClickShows(target) ==
  _onPanelButtonClick(_rtl[currentDateInput], Mem(currentDateInput),
                      _localDate[currentDateInput],
                      shown.id, shown.params.value, target)

\* What a click on a cell of the shown picker makes of the controller.
PickOf(cell) == _onPick(currentDateInput, shown.id, shown.params.value, cell)

\* C11 as stated: the year label shown in another picker switches to the year
\* picker, the month label shown in another picker switches to the month
\* picker, a label in its own picker changes nothing, and a pick of a cell of
\* the month picker or the year picker shows the date picker.
ViewFollowsLabels ==
  (calendarOpen /\ shown.id # "none" /\ currentDateInput \in alive) =>
    /\ \A target \in ShownButtons \cap { YearBtn, MonthBtn } :
         With(ClickShows(target), LAMBDA show :
           LET own == IF target = YearBtn THEN ID_YEAR_PICKER ELSE ID_MONTH_PICKER
           IN  IF shown.id = own
               THEN show = NOSHOW
               ELSE ~show.threw /\ show.id = own)
    /\ shown.id \in { ID_MONTH_PICKER, ID_YEAR_PICKER } =>
         \A cell \in ShownCells :
           With(PickOf(cell), LAMBDA o : ~o.threw /\ o.show.id = ID_DATE_PICKER)

\* The Date of the start of the day the calendar has the local date d on.
DateOfLocal(d) ==
  [time |-> (Cfg.epochDay + DateIndex(d.year, d.month, d.date)) * MsPerDay]

\* The entries of a date picker's grid that are marked picked are those of d.
OnlyPicked(dates, d) ==
  /\ \E i \in 1..Len(dates) : dates[i] # NULL /\ dates[i].picked
  /\ \A i \in 1..Len(dates) :
       dates[i] # NULL =>
         (dates[i].picked <=> /\ dates[i].year = d.year
                              /\ dates[i].month = d.month
                              /\ dates[i].date = d.date)

\* C12: a click on any date cell of the date picker, of the shown month or
\* grayed out, sets the picked date to that cell's date (getDate() is the start
\* of its day) and shows the date picker of that date's year and month with
\* that date, and no other, marked picked.
DatePickCommits ==
  (calendarOpen /\ shown.id = ID_DATE_PICKER /\ currentDateInput \in alive) =>
    \A cell \in ShownCells :
      With(PickOf(cell), LAMBDA o :
        LET d == cell.json
        IN  /\ ~o.threw
            /\ o.set.ret
            /\ o.set.unixDate = DateOfLocal(d)
            /\ FloorSeconds(o.set.unixDate) * MsPerSec = DateOfLocal(d).time
            /\ o.set.localDate.year = d.year
            /\ o.set.localDate.month = d.month
            /\ o.set.localDate.date = d.date
            /\ o.show.id = ID_DATE_PICKER
            /\ o.show.params.value = _serializeValue([year |-> d.year, month |-> d.month])
            /\ OnlyPicked(o.show.params.dates, d))

\* A pick in the date picker set a date other than the one picked before and
\* the date picker shows it as picked.
DatePickWitness ==
  /\ last.op = "_onPick"
  /\ last.ret
  /\ last.had
  /\ last.showed
  /\ shown.id = ID_DATE_PICKER
  /\ OnlyPicked(shown.params.dates, _localDate[last.c])
  /\ \E i \in 1..Len(shown.params.dates) :
       shown.params.dates[i] # NULL /\ shown.params.dates[i].grayOut

\* The controller whose _openCalendar() an animation frame runs last.
LastOpener(callbacks) ==
  callbacks[CHOOSE i \in 1..Len(callbacks) :
              /\ callbacks[i].kind = "open"
              /\ \A j \in 1..Len(callbacks) : callbacks[j].kind = "open" => j <= i].c

\* C13: the animation frame that opens the calendar after a focus shows the
\* date picker of the year and month of the controller's picked date, with
\* that date marked picked, or, with no date picked, of the year and month of
\* the calendar's "now", with no date marked picked.
FocusOpensSeeded ==
  [][ (last'.op = "frame" /\ \E i \in 1..Len(frames) : frames[i].kind = "open") =>
        LET picked == _localDate[LastOpener(frames)]
            seed   == IF picked # NULL THEN picked ELSE getNow
            dates  == shown'.params.dates
        IN  /\ calendarOpen'
            /\ shown'.id = ID_DATE_PICKER
            /\ shown'.params.value =
                 _serializeValue([year |-> seed.year, month |-> seed.month])
            /\ IF picked # NULL THEN OnlyPicked(dates, picked)
               ELSE \A i \in 1..Len(dates) : dates[i] # NULL => ~dates[i].picked
    ]_vars

\* The calendar was opened for a controller without a picked date.
FocusOpensWitness ==
  /\ last.op = "frame"
  /\ calendarOpen
  /\ shown.id = ID_DATE_PICKER
  /\ currentDateInput \in alive
  /\ _localDate[currentDateInput] = NULL
  /\ shown.params.value = _serializeValue([year |-> getNow.year, month |-> getNow.month])

\* The anchor year the year picker was given.
AnchorOf(params) == params.value.json.anchorYear

\* The change of the anchor year a click on the button dir stands for.
StepOf(rtl, dir) ==
  IF (dir = "right") = ~rtl THEN MAX_COUNT_YEAR_IN_YEAR_PICKER
  ELSE 0 - MAX_COUNT_YEAR_IN_YEAR_PICKER

\* C15 as stated: every click on an enabled left or right button of the year
\* picker moves the anchor year by MAX_COUNT_YEAR_IN_YEAR_PICKER years in the
\* direction clicked.
YearFlipByBlock ==
  (calendarOpen /\ shown.id = ID_YEAR_PICKER /\ currentDateInput \in alive) =>
    \A dir \in { "left", "right" } :
      CanGo(shown.params, dir) =>
        With(ClickShows(IF dir = "left" THEN LeftBtn ELSE RightBtn), LAMBDA show :
          /\ ~show.threw
          /\ show.id = ID_YEAR_PICKER
          /\ AnchorOf(show.params) =
               AnchorOf(shown.params) + StepOf(_rtl[currentDateInput], dir))

\* The years of the calendar, from the first to the last.
CalendarYears == Cfg.firstYear..Cfg.lastYear

\* The block of the year picker around the anchor year A: COUNT consecutive
\* years, A at index floor(COUNT / 2).
BlockOf(A) ==
  { y \in (A - MAX_COUNT_YEAR_IN_YEAR_PICKER)..(A + MAX_COUNT_YEAR_IN_YEAR_PICKER) :
      /\ y >= A - (MAX_COUNT_YEAR_IN_YEAR_PICKER \div 2)
      /\ y < A - (MAX_COUNT_YEAR_IN_YEAR_PICKER \div 2) + MAX_COUNT_YEAR_IN_YEAR_PICKER }

\* C16: the years the year picker offers, as cells and in its serialised
\* value, are the years of the calendar among the COUNT consecutive years that
\* start at the anchor year minus floor(COUNT / 2), in ascending order and
\* without duplicates.
YearsOfferedAreBlock ==
  (calendarOpen /\ shown.id = ID_YEAR_PICKER) =>
    LET years == shown.params.years
        A     == AnchorOf(shown.params)
    IN  /\ \A i \in 1..Len(years) : years[i].value = years[i].text
        /\ \A i \in 1..(Len(years) - 1) : years[i].value < years[i + 1].value
        /\ { years[i].value : i \in 1..Len(years) } = BlockOf(A) \cap CalendarYears
        /\ shown.params.value.json.years = [i \in 1..Len(years) |-> years[i].value]

\* The year picker shows a block that lies partly outside the calendar.
YearsOfferedWitness ==
  /\ calendarOpen
  /\ shown.id = ID_YEAR_PICKER
  /\ Len(shown.params.years) > 0
  /\ Len(shown.params.years) < MAX_COUNT_YEAR_IN_YEAR_PICKER
  /\ last.op = "_onPanelButtonClick"
  /\ last.btn = "right-btn"

\* C17: the year picker disables a direction exactly at the calendar's
\* boundary: without rtl, noMoreLeft holds iff the year before the first year
\* of the block is outside the calendar and noMoreRight iff the year after its
\* last year is; with rtl the two are exchanged; both hold exactly when the
\* block holds the first and the last year of the calendar.
YearFlagsAtBoundaries ==
  (calendarOpen /\ shown.id = ID_YEAR_PICKER) =>
    LET block     == BlockOf(AnchorOf(shown.params))
        first     == CHOOSE y \in block : \A z \in block : y <= z
        final     == CHOOSE y \in block : \A z \in block : z <= y
        beforeOut == (first - 1) \notin CalendarYears
        afterOut  == (final + 1) \notin CalendarYears
    IN  /\ shown.params.noMoreLeft =
             (IF shown.params.rtl THEN afterOut ELSE beforeOut)
        /\ shown.params.noMoreRight =
             (IF shown.params.rtl THEN beforeOut ELSE afterOut)
        /\ (shown.params.noMoreLeft /\ shown.params.noMoreRight) <=>
             (Cfg.firstYear \in block /\ Cfg.lastYear \in block)

\* The year picker of an LTR controller is at the calendar's first years only.
YearFlagsWitness ==
  /\ calendarOpen
  /\ shown.id = ID_YEAR_PICKER
  /\ ~shown.params.rtl
  /\ shown.params.noMoreLeft
  /\ ~shown.params.noMoreRight

\* The calendar has a month before (after) the month (year, month).
HasMonthBefore(year, month) == DateIndex(year, month, 1) > 0

HasMonthAfter(year, month) ==
  DateIndex(year, month, 1) + Len(MonthTable[<< year, month >>]) < Len(AllDates)

\* C18 as stated: the date picker disables a direction exactly when the month
\* in that direction is outside the calendar: without rtl, noMoreLeft holds iff
\* the calendar has no month before the shown one, and noMoreRight iff it has
\* no month after it; with rtl the two are exchanged.
DateFlagsAtBoundaries ==
  (calendarOpen /\ shown.id = ID_DATE_PICKER) =>
    LET v         == shown.params.value.json
        beforeOut == ~HasMonthBefore(v.year, v.month)
        afterOut  == ~HasMonthAfter(v.year, v.month)
    IN  /\ shown.params.noMoreLeft =
             (IF shown.params.rtl THEN afterOut ELSE beforeOut)
        /\ shown.params.noMoreRight =
             (IF shown.params.rtl THEN beforeOut ELSE afterOut)

\* C14: among the controllers sharing the caLINEdar object, the current date
\* input is the controller that called openCalendar last (by a focus or by the
\* application): openCalendar makes its controller the current one, nothing
\* else changes the pointer, and a closeCalendar or outside click handled by a
\* controller that is not the current one changes neither the pointer nor
\* whether and what the calendar shows.
CurrentInputIsLastOpener ==
  [][ /\ last'.op = "openCalendar" => currentDateInput' = last'.c
      /\ currentDateInput' # currentDateInput => last'.op = "openCalendar"
      /\ (last'.op = "closeCalendar" /\ last'.c # currentDateInput) =>
           UNCHANGED << currentDateInput, calendarOpen, shown >>
    ]_vars

\* A controller that is not the current one handled closeCalendar while the
\* calendar of the other one was open.
CurrentInputWitness ==
  /\ last.op = "closeCalendar"
  /\ currentDateInput \in alive
  /\ last.c # currentDateInput
  /\ calendarOpen

\* The grid a call of _getLocalDatesToDisplay handed out, null when it raised.
GridOf(r) == IF r.threw THEN NULL ELSE r.dates

\* C19: a controller has the calendar compute the dates of a (year, month) at
\* most once: calendar.getDates was called once for every pair that was ever
\* asked for, the pair is in the cache since, and a request for a cached pair
\* is answered with the calendar's dates without a call of calendar.getDates.
ComputedAtMostOnce ==
  \A c \in alive :
    /\ DOMAIN getDatesCalls[c] = DOMAIN _datesCache[c]
    /\ \A key \in DOMAIN getDatesCalls[c] :
         /\ getDatesCalls[c][key] = 1
         /\ With(_getDatesWithCache(Mem(c), key[1], key[2]), LAMBDA got :
              /\ got.mem = Mem(c)
              /\ got.dates = getDates(key[1], key[2]))

\* A flip of the date picker showed a month whose dates the controller had
\* asked for before, four pairs or more being cached by now.
ComputedOnceWitness ==
  /\ last.op = "_onPanelButtonClick"
  /\ last.btn \in { "left-btn", "right-btn" }
  /\ last.showed
  /\ shown.id = ID_DATE_PICKER
  /\ Cardinality(DOMAIN _datesCache[last.c]) >= 4
  /\ << shown.params.value.json.year, shown.params.value.json.month >>
       \in DOMAIN _datesCache[last.c]

\* C20: what is cached for a (year, month) is what the calendar returned for
\* it, in every state: no grayOut, special, picked, text or value mark and no
\* filler date gets into the cache.  Rendering a cached month, with the picked
\* date or without one, gives the grid that rendering it with an empty cache
\* gives.
RendersAsWithoutCache ==
  \A c \in alive :
    \A key \in DOMAIN _datesCache[c] :
      /\ _datesCache[c][key] = getDates(key[1], key[2])
      /\ \A datePicked \in { _localDate[c], NULL } :
           GridOf(_getLocalDatesToDisplay(Mem(c), key[1], key[2], datePicked))
             = GridOf(_getLocalDatesToDisplay(NoDates, key[1], key[2], datePicked))

\* A flip of the date picker showed a month that the view before had asked for
\* as a neighbour; the grid shows grayed-out neighbours and the picked date.
RendersAsWithoutCacheWitness ==
  /\ last.op = "_onPanelButtonClick"
  /\ last.btn \in { "left-btn", "right-btn" }
  /\ last.showed
  /\ shown.id = ID_DATE_PICKER
  /\ \E i \in DOMAIN shown.params.dates :
       shown.params.dates[i] # NULL /\ shown.params.dates[i].grayOut
  /\ \E i \in DOMAIN shown.params.dates :
       shown.params.dates[i] # NULL /\ shown.params.dates[i].picked

\* C26: a setDate call that returns false, its argument being no date or a
\* date the calendar cannot convert, leaves the picked instant, the picked
\* local date and the input's text as they were.
FailedSetDateKeepsState ==
  [][ (last'.op = "setDate" /\ ~last'.ret) =>
        /\ _unixDate' = _unixDate
        /\ _localDate' = _localDate
        /\ inputValue' = inputValue
        /\ (last'.warned <=> (isInt(last'.arg) \/ isDateObject(last'.arg))) ]_vars

\* setDate was given something that is no date by a controller holding a date,
\* returned false and the controller still holds the date.
FailedSetDateWitness ==
  /\ last.op = "setDate"
  /\ ~last.ret
  /\ last.had
  /\ ~isInt(last.arg) /\ ~isDateObject(last.arg)
  /\ _unixDate[last.c] # NULL
  /\ inputValue[last.c] # getDateStringPlaceholder

\* C21 as stated: whenever the picked date of a controller changes, every
\* handler subscribed to onChange at that time (and not unsubscribed since) is
\* eventually called with the controller, the animation frames being run.
ChangeNotifiesSubscribers ==
  \A c \in Inputs : \A h \in EventsSetup.handlers :
    (h \in unnotified[c]) ~> (h \notin unnotified[c])

\* The (year, month) pairs of the calendar.
CalendarMonths == DOMAIN MonthTable

\* The entries i of a grid that are a date of (year, month).
PlacesOf(dates, year, month) ==
  { i \in 1..Len(dates) :
      dates[i] # NULL /\ dates[i].year = year /\ dates[i].month = month }

\* The grid has the dates of (year, month), all of them, once each, side by side
\* and ascending, from place first on.
HoldsMonthFrom(dates, year, month, first) ==
  LET own == getDates(year, month).arr
  IN  /\ PlacesOf(dates, year, month) = first..(first + Len(own) - 1)
      /\ \A i \in 1..Len(own) : dates[first + i - 1].date = own[i].date

\* C22 as stated: for every (year, month) of the calendar, with the picked
\* date or with none, the grid of the date picker has
\* MAX_COUNT_DATES_IN_DATE_PICKER entries and holds every date of the month
\* once, side by side in ascending order.
GridHoldsTheMonth ==
  \A c \in alive : \A ym \in CalendarMonths :
    \A datePicked \in { _localDate[c], NULL } :
      With(_getLocalDatesToDisplay(Mem(c), ym[1], ym[2], datePicked), LAMBDA r :
        /\ ~r.threw
        /\ Len(r.dates) = MAX_COUNT_DATES_IN_DATE_PICKER
        /\ \E first \in 1..Len(r.dates) :
             HoldsMonthFrom(r.dates, ym[1], ym[2], first))

\* The local date that stands back places before the first date of
\* (year, month) in the calendar, if it is a date of the month just before;
\* null otherwise.
DateBefore(year, month, back) ==
  LET first == DateIndex(year, month, 1)
  IN  IF first - back < 0 THEN NULL
      ELSE IF LocalDateAt(first - back).month # LocalDateAt(first - 1).month
             \/ LocalDateAt(first - back).year # LocalDateAt(first - 1).year
           THEN NULL
           ELSE LocalDateAt(first - back)

\* C23 as stated: in the grid of (year, month) the entries before the first
\* date of the month are as many as the index of its weekday in getDays(); they
\* are the last days of the month before, ascending and grayed out, null where
\* that month has no date for them; no date of the month itself is grayed out.
LeadingFillIsWeekdayIndex ==
  \A c \in alive : \A ym \in CalendarMonths :
    With(_getLocalDatesToDisplay(Mem(c), ym[1], ym[2], _localDate[c]), LAMBDA r :
      LET own == getDates(ym[1], ym[2]).arr
          firstDayIdx == FindIndex(getDays, LAMBDA d : d.value = own[1].day)
      IN  /\ ~r.threw
          /\ HoldsMonthFrom(r.dates, ym[1], ym[2], firstDayIdx + 1)
          /\ \A i \in 1..firstDayIdx :
               With(DateBefore(ym[1], ym[2], firstDayIdx - i + 1), LAMBDA p :
                 IF p = NULL THEN r.dates[i] = NULL
                 ELSE /\ r.dates[i] # NULL
                      /\ r.dates[i].year = p.year
                      /\ r.dates[i].month = p.month
                      /\ r.dates[i].date = p.date
                      /\ r.dates[i].grayOut)
          /\ \A i \in PlacesOf(r.dates, ym[1], ym[2]) : ~r.dates[i].grayOut)

\* C24 as stated: the year picker opened from a view of (y, m) carries m, the
\* flips of the year picker keep it, and a pick of a year Y in it shows the date
\* picker of (Y, m).
YearPickerCarriesMonth ==
  [][ /\ ( /\ last'.op = "_onPanelButtonClick"
           /\ last'.btn = "year-picker-btn"
           /\ last'.showed )
        => /\ shown'.id = ID_YEAR_PICKER
           /\ shown'.params.value.json.anchorMonth = shown.params.value.json.month
      /\ ( /\ shown.id = ID_YEAR_PICKER
           /\ last'.op = "_onPanelButtonClick"
           /\ last'.showed )
        => /\ shown'.id = ID_YEAR_PICKER
           /\ shown'.params.value.json.anchorMonth
                = shown.params.value.json.anchorMonth
      /\ (calendarOpen /\ shown.id = ID_YEAR_PICKER /\ currentDateInput \in alive)
        => \A cell \in ShownCells :
             With(PickOf(cell), LAMBDA o :
               /\ ~o.threw
               /\ o.show.id = ID_DATE_PICKER
               /\ o.show.params.value
                    = _serializeValue([year |-> cell.num,
                                       month |-> shown.params.value.json.anchorMonth]))
    ]_vars

\* C25 as stated: after every update of a table, whatever was rendered into it
\* before, a cell has the class "picked" exactly if the datum rendered into it
\* is picked, and "special" exactly if it is special.
TableClassesFollowData ==
  \A values \in TableValues :
    With(_updateTableCells(pickerTable, values), LAMBDA after :
      \A i \in 1..TableRows : \A j \in 1..TableCols :
        LET k == (i - 1) * TableCols + j
            d == IF k <= Len(values) THEN values[k] ELSE NULL
        IN  /\ "picked" \in after[i][j].classes <=> (d # NULL /\ d.picked)
            /\ "special" \in after[i][j].classes <=> (d # NULL /\ d.special))

\* C27 as stated: when the current input closed the calendar while the frame of
\* its openCalendar was still pending, and that frame runs next (no focus in
\* between), the calendar is closed once the pending frames have run.
DeferredOpenKeepsClosed ==
  [][ ( /\ last.op = "closeCalendar"
        /\ last.c = currentDateInput
        /\ \E i \in 1..Len(frames) :
             frames[i].kind = "open" /\ frames[i].c = currentDateInput
        /\ last'.op = "frame" )
      => ~calendarOpen' ]_vars

\* C28: when an animation frame has run the _openCalendar of one or several
\* controllers, the open calendar is anchored to the controller that is the
\* current date input and shows that controller's date picker, whichever
\* controllers had requested the frame's callbacks.
OpenedForCurrentInput ==
  [][ (last'.op = "frame" /\ last'.opened # <<>>)
      => /\ calendarOpen'
         /\ anchorInput' = currentDateInput
         /\ \E c \in { currentDateInput } :
              shown' = _openCalendar(c, [open |-> FALSE, anchor |-> NoInput,
                                         shown |-> [id |-> "none"],
                                         mems |-> [d \in Inputs |-> Mem(d)],
                                         invoked |-> <<>>,
                                         opened |-> <<>>]).shown ]_vars

\* A frame has run the _openCalendar of two controllers whose pickers
\* differ, the one that lost the ownership first.
OpenedForCurrentInputWitness ==
  /\ last.op = "frame"
  /\ Len(last.opened) = 2
  /\ last.opened[1] # last.opened[2]
  /\ last.opened[2] = currentDateInput
  /\ _localDate[last.opened[1]] # _localDate[last.opened[2]]
  /\ anchorInput = currentDateInput
  /\ calendarOpen
\* The handlers the i-th pending callback will invoke, if _notify requested it.
PendingHandlers(i) ==
  IF frames[i].kind = "notify" THEN frames[i].queue ELSE <<>>

\* C29: a handler an animation frame invokes for a controller is subscribed to
\* the controller when the frame runs, so that a handler unsubscribed since the
\* notification is not invoked; and subscribing a handler adds nothing to the
\* handlers the notifications already issued will invoke.
InvokedAreSubscribed ==
  [][ /\ last'.op = "frame"
         => \A i \in 1..Len(last'.invoked) :
              \E j \in 1..Len(_events[last'.invoked[i].arg].queue) :
                _events[last'.invoked[i].arg].queue[j] = last'.invoked[i].handler
      /\ last'.op = "subscribe"
         => /\ Len(frames') = Len(frames)
            /\ \A i \in 1..Len(frames) :
                 PendingHandlers(i)' = PendingHandlers(i) ]_vars
\* C30: from every view of the year picker, a click on an enabled left or
\* right button followed by a click on the opposite button (where enabled)
\* shows the original anchor year and the same years again, also where the
\* calendar's first or last year cuts the block or the block next to it.
YearFlipThereAndBack ==
  (calendarOpen /\ shown.id = ID_YEAR_PICKER /\ currentDateInput \in alive) =>
    \A dir \in { "left", "right" } :
      CanGo(shown.params, dir) =>
        With(ClickShows(IF dir = "left" THEN LeftBtn ELSE RightBtn),
          LAMBDA there :
            /\ ~there.threw
            /\ there.id = ID_YEAR_PICKER
            /\ CanGo(there.params, Opposite(dir)) =>
                 With(_onPanelButtonClick(_rtl[currentDateInput],
                                          Mem(currentDateInput),
                                          _localDate[currentDateInput],
                                          there.id, there.params.value,
                                          IF dir = "left" THEN RightBtn
                                          ELSE LeftBtn),
                   LAMBDA back :
                     /\ ~back.threw
                     /\ back.id = ID_YEAR_PICKER
                     /\ AnchorOf(back.params) = AnchorOf(shown.params)
                     /\ back.params.years = shown.params.years))
\* The (year, month) the shown date picker is shown for.
ShownMonth == [year |-> shown.params.value.json.year,
               month |-> shown.params.value.json.month]

\* C31: whatever left and right clicks, label clicks, month picks and year
\* picks the controller has handled, the (year, month) the date picker is shown
\* for is within the calendar: isDateInCalendar(year, month) holds and the
\* month is one of getMonths(year).
ShownMonthInCalendar ==
  shown.id = ID_DATE_PICKER =>
    /\ isDateInCalendar(ShownMonth.year, ShownMonth.month)
    /\ \E j \in 1..Len(getMonths(ShownMonth.year)) :
         getMonths(ShownMonth.year)[j].value = ShownMonth.month

\* A pick in the year picker has shown the date picker of another year than
\* the picked date's.
ShownMonthInCalendarWitness ==
  /\ calendarOpen
  /\ shown.id = ID_DATE_PICKER
  /\ last.op = "_onPick"
  /\ last.showed
  /\ _localDate[currentDateInput] # NULL
  /\ ShownMonth.year # _localDate[currentDateInput].year
\* Two values, of any types, that are written the same.
Alike(a, b) == ToString(a) = ToString(b)

\* C32: once the month picker of a year has been shown, the month objects the
\* calendar returned for it are as calendar.getMonths(year) makes them: a
\* calendar that returns the same objects again gives the same params of the
\* month picker, and the same previous and next month of every month of the
\* year, as one that makes new objects.
MonthsLeftAsReturned ==
  (shown.id = ID_MONTH_PICKER /\ currentDateInput \in alive) =>
    LET year  == shown.params.value.json.year
        month == shown.params.value.json.month
        rtl   == _rtl[currentDateInput]
        fresh == getMonths(year)
        same  == shown.params.months
    IN  /\ Alike(_getMonthPickerParamsOf(rtl, year, month, same),
                 _getMonthPickerParamsOf(rtl, year, month, fresh))
        /\ \A j \in 1..Len(fresh) :
             /\ Alike(_calcPrevLocalMonth(year, fresh[j].value, same),
                      _calcPrevLocalMonth(year, fresh[j].value, fresh))
             /\ Alike(_calcNextLocalMonth(year, fresh[j].value, same),
                      _calcNextLocalMonth(year, fresh[j].value, fresh))
\* C33: a click on the clear button and a pick of a cell request a
\* notification of the onChange handlers only when they changed the picked
\* date: none for a clear of a controller without a picked date, none for a
\* pick of the date that is picked already.
NotifyOnlyOnChange ==
  [][ (last'.op \in { "_onClearBtnClick", "_onPick" } /\ frames' # frames)
      => _unixDate'[last'.c] # _unixDate[last'.c] ]_vars
====
